---- MODULE Spec2Model ----
(***************************************************************************)
(* Versioned artifact store and stage resolver of the particle-analysis    *)
(* pipeline (backend/app/api/routes.py, backend/app/services/pipeline.py,  *)
(* backend/app/services/storage.py, backend/app/db/models.py).             *)
(*                                                                         *)
(* Encoding.  Artifact ids are uuid4 strings in the program; here they are *)
(* the integers 1..MaxIds handed out by the counter nextId, and None is 0. *)
(* created_at is the order of creation, i.e. the order of the ids.  A JSON *)
(* params object is a function from its keys to its values.  A relative    *)
(* file path is a record of its components.  An error message is an ASCII  *)
(* tag; the two Korean substrings the routes look for in a message are the *)
(* sets MsgHasFirstComplete and MsgHasFirst.                               *)
(***************************************************************************)
EXTENDS Integers, Sequences, FiniteSets, TLC

\* ---------------------------------------------------------------- bounds
MaxIds == 3

\* ------------------------------------------------------------- constants
Runs == {"r1", "r2"}
VALID_STEP_IDS == {1, 2, 3, 4, 45, 5, 6, 7, 8, 9, 10}
HISTORY_EXPORT_STEP_IDS == 1..8
PreviewSteps == {3, 4, 6, 7, 9, 10}
None == 0
Ids == 1..MaxIds
ReqIds == 0..MaxIds

\* STEP_PREREQUISITES.get(step_id); None when the step has no entry
STEP_PREREQUISITES(step_id) ==
    CASE step_id = 2 -> 1
      [] step_id = 3 -> 2
      [] step_id = 4 -> 3
      [] step_id = 5 -> 4
      [] step_id = 45 -> 5
      [] step_id = 6 -> 5
      [] step_id = 7 -> 6
      [] step_id = 9 -> 8
      [] step_id = 10 -> 9
      [] OTHER -> None

\* keys of a params object whose name ends with "_artifact_id"
RefKeys == {"input_artifact_id", "base_mask_artifact_id", "step7_artifact_id",
            "requested_step7_artifact_id", "step8_artifact_id", "step9_artifact_id",
            "step3_artifact_id", "preview_background_artifact_id"}

\* str.endswith("_artifact_id") on the keys that occur
EndsWithArtifactId(key) == key \in RefKeys

\* mime_type.startswith("image/")
IsImageMime(mime_type) == mime_type \in {"image/png", "image/jpeg", "image/tiff"}

\* ------------------------------------------------------------ error texts
MSG_PREREQ == "N-dangye-reul meonjeo wanryo-haeya"
MSG_PREREQ_9_6 == "meonjeo 6-dangye mask-ga piryo"
MSG_PREREQ_10_9 == "meonjeo 9-dangye polygon-i piryo"
MSG_SELECTED_NOT_FOUND == "seontaekhan sanchulmul-eul chajeul su eopsseumnida"
MSG_SELECTED_NO_IMAGE == "seontaekhan sanchulmul-e image-ga eopsseumnida"
MSG_LATEST_MISSING == "N-dangye-reul meonjeo wanryo-haeya (resolver)"
MSG_STEP3_IMAGE_MISSING == "3-dangye gyeolgwa image-reul chajeul su eopsseumnida"
MSG_SCALE_MISSING == "1-dangye scale bojeong jeongbo-reul chajeul su eopsseumnida"
MSG_SCALE_INVALID == "1-dangye scale bojeong gabs-eul hwagin hal su eopsseumnida"
MSG_STEP8_NO_MASK == "yunkwakseon-eul ppobeuryeomyeon meonjeo mask-reul mandeureoya"
MSG_STEP8_CONTOURS == "meonjeo 8-dangye yunkwakseon-i piryo"
MSG_UNSUPPORTED_STEP == "jiwonhaji anneun dangye"

\* messages that contain the substring the routes of steps 2..7 and 45 test
MsgHasFirstComplete == {MSG_PREREQ, MSG_LATEST_MISSING}

\* messages that contain the substring the routes of steps 8, 9, 10 test
MsgHasFirst == MsgHasFirstComplete \cup
    {MSG_PREREQ_9_6, MSG_PREREQ_10_9, MSG_STEP8_NO_MASK, MSG_STEP8_CONTOURS}

\* ------------------------------------------------------------------ state
VARIABLES
    artifacts,   \* rows of the StepArtifact table (committed)
    disk,        \* relative paths of the files and directories under the storage
                 \* root; a directory is the path of a file in it with name ""
    nextId,      \* the next fresh artifact id
    pending,     \* per session: the row flushed but not yet committed
    resp,        \* the last request answered with a success, and its response
    call,        \* a call of one of the pure functions: its name, arguments, result
    content      \* the bytes of the files an import wrote, by path (a file written
                 \* by an execute holds what that execute wrote: see BytesAt)

vars == <<artifacts, disk, nextId, pending, resp, call, content>>

Sessions == {"s1", "s2"}

\* ---------------------------------------------------------------- helpers
Max(S) == CHOOSE x \in S : \A y \in S : y <= x

Put(f, k, v) == [x \in DOMAIN f \cup {k} |-> IF x = k THEN v ELSE f[x]]

EmptyParams == [k \in {} |-> 0]

NoPath == [run |-> "", layout |-> "", step |-> 0, version |-> 0, aid |-> 0, name |-> ""]

NoArtifact ==
    [id |-> None, run_id |-> "", step_id |-> 0, version |-> 0,
     artifact_type |-> "", params |-> EmptyParams, files |-> <<>>]

FileRef(path, mime_type) == [path |-> path, mime_type |-> mime_type]

\* Path(path).parent
Parent(path) == [path EXCEPT !.name = ""]

\* session.get(StepArtifact, id): lookup by primary key, over all runs
Get(arts, id) ==
    IF \E a \in arts : a.id = id THEN CHOOSE a \in arts : a.id = id ELSE NoArtifact

OfStep(arts, run_id, step_id) ==
    {a \in arts : a.run_id = run_id /\ a.step_id = step_id}

Versions(arts, run_id, step_id) == {a.version : a \in OfStep(arts, run_id, step_id)}

\* a version allocator that counts the rows instead of taking the largest version
_next_version_by_count(arts, run_id, step_id) ==
    Cardinality(OfStep(arts, run_id, step_id)) + 1

\* a version allocator with the default misplaced: (max(version) or 1) + 1
_next_version_from_one(arts, run_id, step_id) ==
    (IF Versions(arts, run_id, step_id) = {} THEN 1 ELSE Max(Versions(arts, run_id, step_id))) + 1

\* _next_version: (max(version) or 0) + 1 over the rows of (run, step)
_next_version(arts, run_id, step_id) ==
    LET vs == Versions(arts, run_id, step_id)
    IN (IF vs = {} THEN 0 ELSE Max(vs)) + 1

\* a completion test that forgets the run
_is_step_completed_in_any_run(arts, run_id, step_id) ==
    \E a \in arts : a.step_id = step_id

\* _is_step_completed: some row of (run, step) exists
_is_step_completed(arts, run_id, step_id) == OfStep(arts, run_id, step_id) # {}

\* _validate_step_prerequisite: "" when it returns, else the message it raises
_validate_step_prerequisite(arts, run_id, step_id) ==
    LET prerequisite == STEP_PREREQUISITES(step_id)
    IN IF prerequisite = None THEN ""
       ELSE IF _is_step_completed(arts, run_id, prerequisite) THEN ""
       ELSE IF step_id = 9 /\ prerequisite = 6 THEN MSG_PREREQ_9_6
       ELSE IF step_id = 10 /\ prerequisite = 9 THEN MSG_PREREQ_10_9
       ELSE MSG_PREREQ

\* a latest-artifact query that forgets the run
_latest_step_artifact_of_any_run(arts, run_id, step_id) ==
    LET rows == {a \in arts : a.step_id = step_id}
    IN IF rows = {} THEN NoArtifact
       ELSE CHOOSE a \in rows : \A b \in rows : b.id <= a.id

\* _latest_step_artifact: ORDER BY version DESC, created_at DESC LIMIT 1
_latest_step_artifact(arts, run_id, step_id) ==
    LET rows == OfStep(arts, run_id, step_id)
    IN IF rows = {} THEN NoArtifact
       ELSE CHOOSE a \in rows : \A b \in rows :
                \/ b.version < a.version
                \/ (b.version = a.version /\ b.id <= a.id)

\* the first of the indexes hits of a files list, 0 when there is none
FirstIndex(hits) ==
    IF hits = {} THEN 0 ELSE CHOOSE i \in hits : \A j \in hits : i <= j

\* _artifact_first_image_path: the first file whose mime type is an image
_artifact_first_image_path(artifact) ==
    LET IsImg(f) == IsImageMime(f.mime_type)
        i == FirstIndex({j \in 1..Len(artifact.files) : IsImg(artifact.files[j])})
    IN IF artifact.id = None \/ i = 0 THEN NoPath ELSE artifact.files[i].path

\* _artifact_json_path_by_keywords(artifact, [keyword]): the first JSON file whose
\* name contains the keyword; file names are whole words here, so "contains" is
\* membership in the set of names that contain it
NamesWith(keyword) ==
    CASE keyword = "contours" -> {"contours.json"}
      [] keyword = "polygons" -> {"polygons.json"}
      [] keyword = ".json" -> {"contours.json", "polygons.json", "qc.json", "params.json",
                               "metrics.json", "calibration.json", "split_lines.json"}
      [] OTHER -> {}

_artifact_json_path_by_keywords(artifact, keyword) ==
    LET IsJson(f) == /\ (f.mime_type = "application/json" \/ f.path.name \in NamesWith(".json"))
                     /\ f.path.name \in NamesWith(keyword)
        i == FirstIndex({j \in 1..Len(artifact.files) : IsJson(artifact.files[j])})
    IN IF artifact.id = None \/ i = 0 THEN NoPath ELSE artifact.files[i].path

\* an artifact's image file that is recorded and present on disk
UsableImage(dsk, artifact) ==
    LET path == _artifact_first_image_path(artifact)
    IN IF path # NoPath /\ path \in dsk THEN path ELSE NoPath

\* the outcome of a resolver: the message raised ("" when none) and the ids found
Res(err, a, b, c) == [err |-> err, a |-> a, b |-> b, c |-> c]

\* an input resolver that checks the stage of the selected artifact and not its run
ResolveInputImageOfAnyRun(arts, dsk, run_id, requested, expected) ==
    IF requested # None
    THEN LET selected == Get(arts, requested)
         IN IF selected.id = None \/ selected.step_id # expected
            THEN Res(MSG_SELECTED_NOT_FOUND, None, None, None)
            ELSE IF UsableImage(dsk, selected) # NoPath
            THEN Res("", selected.id, None, None)
            ELSE Res(MSG_SELECTED_NO_IMAGE, None, None, None)
    ELSE LET latest == _latest_step_artifact(arts, run_id, expected)
         IN IF latest.id # None /\ UsableImage(dsk, latest) # NoPath
            THEN Res("", latest.id, None, None)
            ELSE Res(MSG_LATEST_MISSING, None, None, None)

\* _resolve_step3_input_image_path / _resolve_step4_input_image_path /
\* _resolve_step5_base_mask_path, with expected the stage the input must have
ResolveInputImage(arts, dsk, run_id, requested, expected) ==
    IF requested # None
    THEN LET selected == Get(arts, requested)
         IN IF selected.id = None \/ selected.run_id # run_id \/ selected.step_id # expected
            THEN Res(MSG_SELECTED_NOT_FOUND, None, None, None)
            ELSE IF UsableImage(dsk, selected) # NoPath
            THEN Res("", selected.id, None, None)
            ELSE Res(MSG_SELECTED_NO_IMAGE, None, None, None)
    ELSE LET latest == _latest_step_artifact(arts, run_id, expected)
         IN IF latest.id # None /\ UsableImage(dsk, latest) # NoPath
            THEN Res("", latest.id, None, None)
            ELSE Res(MSG_LATEST_MISSING, None, None, None)

_resolve_step3_input_image_path(arts, dsk, run_id, requested) ==
    ResolveInputImage(arts, dsk, run_id, requested, 2)

_resolve_step4_input_image_path(arts, dsk, run_id, requested) ==
    ResolveInputImage(arts, dsk, run_id, requested, 3)

_resolve_step5_base_mask_path(arts, dsk, run_id, requested) ==
    ResolveInputImage(arts, dsk, run_id, requested, 4)

\* params.get(key) when it is a non-blank string, else None
ParamRef(artifact, key) ==
    IF key \in DOMAIN artifact.params THEN artifact.params[key] ELSE None

\* the Step-3 artifact named by id when it is of this run, of step 3 and has a
\* usable image, else None
Step3ById(arts, dsk, run_id, id) ==
    LET step3 == Get(arts, id)
    IN IF id # None /\ step3.id # None /\ step3.run_id = run_id /\ step3.step_id = 3
          /\ UsableImage(dsk, step3) # NoPath
       THEN step3.id ELSE None

\* the latest Step-3 artifact when it has a usable image, else None
LatestStep3(arts, dsk, run_id) ==
    LET latest == _latest_step_artifact(arts, run_id, 3)
    IN IF latest.id # None /\ UsableImage(dsk, latest) # NoPath THEN latest.id ELSE None

\* the walk without the check that the Step-4 artifact is of this run
Step3ViaStep5OfAnyRun(arts, dsk, run_id, step5) ==
    LET step4 == Get(arts, ParamRef(step5, "base_mask_artifact_id"))
    IN IF step4.id # None /\ step4.step_id = 4
       THEN Step3ById(arts, dsk, run_id, ParamRef(step4, "input_artifact_id"))
       ELSE None

\* the walk S5.base_mask_artifact_id -> S4.input_artifact_id -> S3
Step3ViaStep5(arts, dsk, run_id, step5) ==
    LET step4 == Get(arts, ParamRef(step5, "base_mask_artifact_id"))
    IN IF step4.id # None /\ step4.run_id = run_id /\ step4.step_id = 4
       THEN Step3ById(arts, dsk, run_id, ParamRef(step4, "input_artifact_id"))
       ELSE None

\* _resolve_um_per_px: the message it raises, "" when the scale is readable
_resolve_um_per_px(arts, run_id) ==
    LET latest_step1 == _latest_step_artifact(arts, run_id, 1)
    IN IF latest_step1.id = None THEN MSG_SCALE_MISSING
       ELSE IF "um_per_px" \notin DOMAIN latest_step1.params THEN MSG_SCALE_INVALID
       ELSE IF latest_step1.params["um_per_px"] <= 0 THEN MSG_SCALE_INVALID
       ELSE ""

\* _resolve_step6_base_inputs: a = the Step-5 mask, b = the Step-3 source
_resolve_step6_base_inputs(arts, dsk, run_id, requested) ==
    LET selected == Get(arts, requested)
        latest == _latest_step_artifact(arts, run_id, 5)
        step5 == IF requested # None THEN selected ELSE latest
        chained == Step3ViaStep5(arts, dsk, run_id, step5)
        step3 == IF chained # None THEN chained ELSE LatestStep3(arts, dsk, run_id)
    IN IF requested # None
          /\ (selected.id = None \/ selected.run_id # run_id \/ selected.step_id # 5)
       THEN Res(MSG_SELECTED_NOT_FOUND, None, None, None)
       ELSE IF requested = None /\ latest.id = None
       THEN Res(MSG_LATEST_MISSING, None, None, None)
       ELSE IF UsableImage(dsk, step5) = NoPath
       THEN Res(MSG_SELECTED_NO_IMAGE, None, None, None)
       ELSE IF step3 = None
       THEN Res(MSG_STEP3_IMAGE_MISSING, None, None, None)
       ELSE Res("", step5.id, step3, None)

\* _resolve_step7_base_inputs: a = the Step-6 mask, b = the Step-3 source or None
_resolve_step7_base_inputs(arts, dsk, run_id, requested) ==
    LET selected == Get(arts, requested)
        latest == _latest_step_artifact(arts, run_id, 6)
        step6 == IF requested # None THEN selected ELSE latest
        chained == Step3ById(arts, dsk, run_id, ParamRef(step6, "input_artifact_id"))
        step3 == IF chained # None THEN chained ELSE LatestStep3(arts, dsk, run_id)
    IN IF requested # None
          /\ (selected.id = None \/ selected.run_id # run_id \/ selected.step_id # 6)
       THEN Res(MSG_SELECTED_NOT_FOUND, None, None, None)
       ELSE IF requested = None /\ latest.id = None
       THEN Res(MSG_LATEST_MISSING, None, None, None)
       ELSE IF UsableImage(dsk, step6) = NoPath
       THEN Res(MSG_SELECTED_NO_IMAGE, None, None, None)
       ELSE Res("", step6.id, step3, None)

\* _resolve_step3_image_from_step5_or_6_artifact
_resolve_step3_image_from_step5_or_6_artifact(arts, dsk, run_id, mask_artifact) ==
    IF mask_artifact.step_id = 6
    THEN Step3ById(arts, dsk, run_id, ParamRef(mask_artifact, "input_artifact_id"))
    ELSE IF mask_artifact.step_id = 5
    THEN Step3ViaStep5(arts, dsk, run_id, mask_artifact)
    ELSE None

\* _resolve_step8_base_inputs: a = the mask (step 6, else step 5), b = the Step-3
\* source, c = the mask's step
_resolve_step8_base_inputs(arts, dsk, run_id, requested) ==
    LET selected == Get(arts, requested)
        latest_step6 == _latest_step_artifact(arts, run_id, 6)
        latest_step5 == _latest_step_artifact(arts, run_id, 5)
        candidate == IF requested # None THEN selected
                     ELSE IF latest_step6.id # None THEN latest_step6
                     ELSE latest_step5
        chained == _resolve_step3_image_from_step5_or_6_artifact(arts, dsk, run_id, candidate)
        step3 == IF chained # None THEN chained ELSE LatestStep3(arts, dsk, run_id)
    IN IF requested # None
          /\ (selected.id = None \/ selected.run_id # run_id \/ selected.step_id \notin {5, 6})
       THEN Res(MSG_SELECTED_NOT_FOUND, None, None, None)
       ELSE IF candidate.id = None
       THEN Res(MSG_STEP8_NO_MASK, None, None, None)
       ELSE IF UsableImage(dsk, candidate) = NoPath
       THEN Res(MSG_SELECTED_NO_IMAGE, None, None, None)
       ELSE Res("", candidate.id, step3, candidate.step_id)

\* _find_matching_step7_artifact_for_step8: the latest Step-7 row whose
\* base_mask_artifact_id is the given mask
_find_matching_step7_artifact_for_step8(arts, run_id, base_mask_artifact_id) ==
    LET rows == {a \in OfStep(arts, run_id, 7) :
                    ParamRef(a, "base_mask_artifact_id") = base_mask_artifact_id}
    IN IF rows = {} THEN NoArtifact
       ELSE CHOOSE a \in rows : \A b \in rows :
                \/ b.version < a.version
                \/ (b.version = a.version /\ b.id <= a.id)

\* _resolve_step8_pore_mask_from_step7: the id of the Step-7 artifact it settles on
_resolve_step8_pore_mask_from_step7(arts, run_id, base_mask_artifact_id, base_mask_step_id, requested) ==
    LET selected == Get(arts, requested)
        explicit == IF requested # None /\ selected.id # None
                       /\ selected.run_id = run_id /\ selected.step_id = 7
                    THEN selected ELSE NoArtifact
        matching == IF explicit.id = None /\ base_mask_step_id = 6
                    THEN _find_matching_step7_artifact_for_step8(arts, run_id, base_mask_artifact_id)
                    ELSE explicit
        step7 == IF matching.id = None THEN _latest_step_artifact(arts, run_id, 7)
                 ELSE matching
    IN step7.id

\* _load_step8_contours_payload_for_run / _load_step9_polygons_payload_for_run:
\* a = the artifact settled on (None when the run has none), b = 1 when its JSON
\* file is recorded and on disk, else 0
LoadJsonPayload(arts, dsk, run_id, requested, expected, keyword) ==
    LET candidate == Get(arts, requested)
        explicit == IF requested # None /\ candidate.id # None
                       /\ candidate.run_id = run_id /\ candidate.step_id = expected
                    THEN candidate ELSE NoArtifact
        chosen == IF explicit.id = None THEN _latest_step_artifact(arts, run_id, expected)
                  ELSE explicit
        json_rel_path == _artifact_json_path_by_keywords(chosen, keyword)
    IN IF chosen.id = None THEN Res("", None, 0, None)
       ELSE IF json_rel_path = NoPath \/ json_rel_path \notin dsk
       THEN Res("", chosen.id, 0, None)
       ELSE Res("", chosen.id, 1, None)

_load_step8_contours_payload_for_run(arts, dsk, run_id, requested) ==
    LoadJsonPayload(arts, dsk, run_id, requested, 8, "contours")

_load_step9_polygons_payload_for_run(arts, dsk, run_id, requested) ==
    LoadJsonPayload(arts, dsk, run_id, requested, 9, "polygons")

\* _resolve_step9_preview_background_rel_path: the artifact whose image is the
\* background (latest Step 3, else latest Step 1, else None for the original)
_resolve_step9_preview_background_rel_path(arts, dsk, run_id) ==
    LET latest_step3 == _latest_step_artifact(arts, run_id, 3)
        latest_step1 == _latest_step_artifact(arts, run_id, 1)
    IN IF UsableImage(dsk, latest_step3) # NoPath THEN latest_step3.id
       ELSE IF UsableImage(dsk, latest_step1) # NoPath THEN latest_step1.id
       ELSE None

\* _resolve_step10_inputs: a = step9_artifact_id, b = step3_artifact_id,
\* c = preview_bg_artifact_id
_resolve_step10_inputs(arts, dsk, run_id, requested_step9, requested_step3) ==
    LET prereq == _validate_step_prerequisite(arts, run_id, 10)
        step9 == _load_step9_polygons_payload_for_run(arts, dsk, run_id, requested_step9)
        candidate == Get(arts, requested_step3)
        explicit == IF requested_step3 # None /\ candidate.id # None
                       /\ candidate.run_id = run_id /\ candidate.step_id = 3
                    THEN candidate ELSE NoArtifact
        chosen == IF explicit.id = None THEN _latest_step_artifact(arts, run_id, 3)
                  ELSE explicit
        step3 == IF UsableImage(dsk, chosen) = NoPath THEN NoArtifact ELSE chosen
        step1 == _latest_step_artifact(arts, run_id, 1)
        step1_path == _artifact_first_image_path(step1)
        bg == IF step3.id # None THEN step3.id
              ELSE IF step1_path # NoPath /\ step1_path \in dsk THEN step1.id
              ELSE None
    IN IF prereq # "" THEN Res(prereq, None, None, None)
       ELSE IF step9.a = None \/ step9.b = 0 THEN Res(MSG_PREREQ_10_9, None, None, None)
       ELSE Res("", step9.a, step3.id, bg)

\* ------------------------------------------------------------- storage paths
\* StorageService.run_step_dir: <run>/step_<n>/v<version>/<name>
run_step_dir(run_id, step_id, version, name) ==
    [run |-> run_id, layout |-> "step_v", step |-> step_id, version |-> version,
     aid |-> None, name |-> name]

\* StorageService.run_step<n>_artifact_dir: <run>/step<n>/<artifact_id>/<name>
run_step_artifact_dir(run_id, step_id, artifact_id, name) ==
    [run |-> run_id, layout |-> "step", step |-> step_id, version |-> 0,
     aid |-> artifact_id, name |-> name]

\* import_run_history: <run>/history_import/step_<n>/v<version>/<artifact_id>/<name>
history_import_dir(run_id, step_id, version, artifact_id, name) ==
    [run |-> run_id, layout |-> "history_import", step |-> step_id, version |-> version,
     aid |-> artifact_id, name |-> name]

Png(path) == FileRef(path, "image/png")
Json(path) == FileRef(path, "application/json")

\* the files an execute of the step writes and records, in order
StepFiles(run_id, step_id, version, id) ==
    LET V(name) == run_step_dir(run_id, step_id, version, name)
        A(name) == run_step_artifact_dir(run_id, step_id, id, name)
    IN CASE step_id = 1 -> <<Png(A("step1_preview.png")), Json(A("calibration.json"))>>
         [] step_id = 2 -> <<Png(V("step2_preview.png"))>>
         [] step_id = 3 -> <<Png(V("step3_denoised.png")), Png(V("step3_exclude_mask.png")),
                             Json(V("qc.json"))>>
         [] step_id = 4 -> <<Png(A("step4_mask.png")), Json(A("params.json")), Json(A("qc.json"))>>
         [] step_id = 45 -> <<Png(V("preview.png"))>>
         [] step_id = 5 -> <<Png(A("step5_mask_edited.png"))>>
         [] step_id = 6 -> <<Png(A("step6_recovered_mask.png")), Json(A("params.json")),
                             Json(A("qc.json"))>>
         [] step_id = 7 -> <<Png(A("mask_solid.png")), Png(A("mask_outer.png")),
                             Json(A("metrics.json"))>>
         [] step_id = 8 -> <<Json(A("contours.json"))>>
         [] step_id = 9 -> <<Json(A("polygons.json")), Png(A("step9_preview.png"))>>
         [] OTHER -> <<Json(A("split_lines.json")), Png(A("labels.png")),
                       Png(A("labels_vis.png")), Png(A("segmented_mask.png")),
                       Png(A("boundary_overlay.png")), Json(A("qc.json"))>>

\* artifact_type of the row an execute of the step adds
StepArtifactType(step_id) ==
    CASE step_id = 1 -> "step1_calibration"
      [] step_id \in {2, 3, 45} -> "image_preview"
      [] step_id = 4 -> "mask_binary"
      [] step_id = 5 -> "mask_edited"
      [] step_id = 6 -> "mask_recovered"
      [] step_id = 7 -> "dual_mask"
      [] step_id = 8 -> "contours"
      [] step_id = 9 -> "polygonized_contours"
      [] OTHER -> "overlap_watershed_split"

PathsOf(files) == {files[i].path : i \in 1..Len(files)}

\* the directories the write_* methods and the *_dir methods of StorageService make
\* for these files (mkdir(parents=True, exist_ok=True))
DirsOf(files) == {Parent(files[i].path) : i \in 1..Len(files)}

\* execute_step, steps 2, 3 and 45: run_step_dir is called, and makes the version
\* directory, before the input is resolved; the other steps make their directory
\* after every check has passed
EarlyDirs(run_id, step_id, version) ==
    IF step_id \in {2, 3, 45} THEN {run_step_dir(run_id, step_id, version, "")} ELSE {}

\* the um_per_px of the latest Step-1 artifact (read after _resolve_um_per_px passed)
LatestUmPerPx(arts, run_id) == _latest_step_artifact(arts, run_id, 1).params["um_per_px"]

\* A request: a and b are the explicit upstream ids it carries (None when absent),
\* um is um_per_px of a Step-1 request.
\*   step 3, 4: a = input_artifact_id         step 5, 6, 7: a = base_mask_artifact_id
\*   step 8: a = base_mask_artifact_id, b = step7_artifact_id
\*   step 9: a = step8_artifact_id            step 10: a = step9_artifact_id, b = step3_artifact_id
\*   step 45: a = input_artifact_id of the raw params, stored as given
Request(a, b, um) == [a |-> a, b |-> b, um |-> um]

\* What a stage makes of its resolved inputs: the message raised ("" when none)
\* and the params the executor would store.  r is the outcome of the stage's
\* resolver, um the message of _resolve_um_per_px ("" when the stage does not read
\* the scale), Params the params object built from the resolved ids.
Outcome(r, um, Params(_)) ==
    IF r.err # "" THEN [err |-> r.err, params |-> EmptyParams]
    ELSE IF um # "" THEN [err |-> um, params |-> EmptyParams]
    ELSE [err |-> "", params |-> Params(r)]

\* execute_step, step 9: no Step-8 artifact, or no contours payload, raises
RequirePayload(r, msg) ==
    IF r.a = None \/ r.b = 0 THEN Res(msg, None, None, None) ELSE r

\* The stage-specific part of execute_step and of the preview renderers.
StepOutcome(arts, dsk, run_id, step_id, req) ==
    CASE step_id = 1 ->
           Outcome(Res(IF req.um <= 0 THEN MSG_SCALE_INVALID ELSE "", None, None, None), "",
                   LAMBDA r : [um_per_px |-> req.um])
      [] step_id = 2 ->
           Outcome(Res("", None, None, None), "", LAMBDA r : EmptyParams)
      [] step_id = 3 ->
           Outcome(_resolve_step3_input_image_path(arts, dsk, run_id, req.a), "",
                   LAMBDA r : [input_artifact_id |-> r.a])
      [] step_id = 4 ->
           Outcome(_resolve_step4_input_image_path(arts, dsk, run_id, req.a),
                   _resolve_um_per_px(arts, run_id),
                   LAMBDA r : [input_artifact_id |-> r.a,
                               um_per_px |-> LatestUmPerPx(arts, run_id)])
      [] step_id = 45 ->
           Outcome(Res("", None, None, None), "",
                   LAMBDA r : IF req.a = None THEN EmptyParams
                              ELSE [input_artifact_id |-> req.a])
      [] step_id = 5 ->
           Outcome(_resolve_step5_base_mask_path(arts, dsk, run_id, req.a), "",
                   LAMBDA r : [base_mask_artifact_id |-> r.a])
      [] step_id = 6 ->
           Outcome(_resolve_step6_base_inputs(arts, dsk, run_id, req.a),
                   _resolve_um_per_px(arts, run_id),
                   LAMBDA r : [base_mask_artifact_id |-> r.a, input_artifact_id |-> r.b,
                               um_per_px |-> LatestUmPerPx(arts, run_id)])
      [] step_id = 7 ->
           Outcome(_resolve_step7_base_inputs(arts, dsk, run_id, req.a),
                   _resolve_um_per_px(arts, run_id),
                   LAMBDA r : [base_mask_artifact_id |-> r.a, input_artifact_id |-> r.b,
                               um_per_px |-> LatestUmPerPx(arts, run_id)])
      [] step_id = 8 ->
           Outcome(_resolve_step8_base_inputs(arts, dsk, run_id, req.a), "",
                   LAMBDA r : [base_mask_artifact_id |-> r.a,
                               base_mask_step_id |-> r.c,
                               step7_artifact_id |->
                                   _resolve_step8_pore_mask_from_step7(
                                       arts, run_id, r.a, r.c, req.b),
                               requested_step7_artifact_id |-> req.b,
                               input_artifact_id |-> r.b])
      [] step_id = 9 ->
           Outcome(RequirePayload(
                       _load_step8_contours_payload_for_run(arts, dsk, run_id, req.a),
                       MSG_STEP8_CONTOURS), "",
                   LAMBDA r : [step8_artifact_id |-> r.a,
                               preview_background_artifact_id |->
                                   _resolve_step9_preview_background_rel_path(
                                       arts, dsk, run_id)])
      [] OTHER ->
           Outcome(_resolve_step10_inputs(arts, dsk, run_id, req.a, req.b), "",
                   LAMBDA r : [step9_artifact_id |-> r.a, step3_artifact_id |-> r.b,
                               preview_background_artifact_id |-> r.c])

\* _add_artifact: the row added to the session
_add_artifact(run_id, step_id, version, id, artifact_type, params, files) ==
    [id |-> id, run_id |-> run_id, step_id |-> step_id, version |-> version,
     artifact_type |-> artifact_type, params |-> params, files |-> files]

\* the end of execute_step for the outcome of the stage: raise, or write the files
\* and add the row
StepResult(run_id, step_id, version, id, out) ==
    IF out.err # ""
    THEN [err |-> out.err, version |-> version, row |-> NoArtifact,
          written |-> EarlyDirs(run_id, step_id, version)]
    ELSE [err |-> "", version |-> version,
          row |-> _add_artifact(run_id, step_id, version, id, StepArtifactType(step_id),
                                out.params, StepFiles(run_id, step_id, version, id)),
          written |-> PathsOf(StepFiles(run_id, step_id, version, id))
                      \cup DirsOf(StepFiles(run_id, step_id, version, id))]

\* execute_step: the message raised ("" when none), the version allocated, the
\* row it leaves flushed in the session and the paths it has written by then
execute_step(arts, dsk, run_id, step_id, req, id) ==
    IF step_id \notin VALID_STEP_IDS
    THEN [err |-> MSG_UNSUPPORTED_STEP, version |-> 0, row |-> NoArtifact, written |-> {}]
    ELSE IF _validate_step_prerequisite(arts, run_id, step_id) # ""
    THEN [err |-> _validate_step_prerequisite(arts, run_id, step_id),
          version |-> 0, row |-> NoArtifact, written |-> {}]
    ELSE StepResult(run_id, step_id, _next_version(arts, run_id, step_id), id,
                    StepOutcome(arts, dsk, run_id, step_id, req))

\* routes that all test the long substring
RouteStatusLongSubstring(step_id, err) ==
    IF err = "" THEN 200
    ELSE IF step_id = 1 THEN 422
    ELSE IF err \in MsgHasFirstComplete THEN 409 ELSE 422

\* the status the route of the step answers with for a ValueError of this message
\* (execute_step1: 422; steps 8, 9, 10: 409 on the short substring; others 409 on
\* the long one), 200 when nothing was raised
RouteStatus(step_id, err) ==
    IF err = "" THEN 200
    ELSE IF step_id = 1 THEN 422
    ELSE IF step_id \in {8, 9, 10} THEN (IF err \in MsgHasFirst THEN 409 ELSE 422)
    ELSE IF err \in MsgHasFirstComplete THEN 409 ELSE 422

\* ------------------------------------------------------------ history import
\* One item of the "artifacts" list of an import payload.  is_object tells whether
\* the item is a JSON object, files_is_list whether its "files" is a list (or
\* absent); step_id is 0 when it is no integer.
Item(step_id, artifact_type, source_artifact_id, params, files) ==
    [is_object |-> TRUE, step_id |-> step_id, artifact_type |-> artifact_type,
     source_artifact_id |-> source_artifact_id, params |-> params,
     files_is_list |-> TRUE, files |-> files]

\* "data_base64" of a file entry: the base64 text of some bytes, a text that is no
\* base64, or nothing (absent, no string, blank).  Bytes are named by the path of
\* the file they were first written to.
B64(bytes) == [valid |-> TRUE, blank |-> FALSE, bytes |-> bytes]
B64Corrupt == [valid |-> FALSE, blank |-> FALSE, bytes |-> NoPath]
B64Blank == [valid |-> TRUE, blank |-> TRUE, bytes |-> NoPath]

\* One entry of "files".  filename is the text split at "/": a sequence of
\* components, the first one "" when the text starts with "/".
FileItem(filename, mime_type, data) ==
    [is_object |-> TRUE, filename |-> filename, mime_type |-> mime_type, data |-> data]

\* an entry of "files" that is no JSON object
NotAFileItem == [FileItem(<<>>, "", B64Blank) EXCEPT !.is_object = FALSE]

\* The values of a JSON tree.  A string that may name an artifact is the id it
\* names, with pad telling whether blanks surround it; every other scalar (a
\* number, a boolean, null, a string that is no id) is an "other".
\* A list has its items, a dict its members by key.
JStr(v, pad) ==
    [t |-> "str", v |-> v, pad |-> pad, items |-> <<>>, members |-> <<>>]
JOther(v) ==
    [t |-> "other", v |-> v, pad |-> FALSE, items |-> <<>>, members |-> <<>>]
JList(items) ==
    [t |-> "list", v |-> 0, pad |-> FALSE, items |-> items, members |-> <<>>]
JDict(members) ==
    [t |-> "dict", v |-> 0, pad |-> FALSE, items |-> <<>>, members |-> members]

\* "" stands for parent_key = None
NoKey == ""

\* a remap that hands the items of a list no parent key
RECURSIVE _remap_artifact_refs_immediate_key(_, _, _)
_remap_artifact_refs_immediate_key(value, artifact_id_map, parent_key) ==
    IF value.t = "dict"
    THEN JDict([k \in DOMAIN value.members |->
                  _remap_artifact_refs_immediate_key(value.members[k], artifact_id_map, k)])
    ELSE IF value.t = "list"
    THEN JList([i \in 1..Len(value.items) |->
                  _remap_artifact_refs_immediate_key(value.items[i], artifact_id_map, NoKey)])
    ELSE IF value.t = "str" /\ parent_key # NoKey /\ EndsWithArtifactId(parent_key)
    THEN IF value.v \in DOMAIN artifact_id_map
         THEN JStr(artifact_id_map[value.v], FALSE) ELSE value
    ELSE value

\* _remap_artifact_refs(value, artifact_id_map, parent_key=...): a dict hands each
\* member its key, a list hands its items the key it was handed itself, a string
\* under a key ending with "_artifact_id" is looked up stripped and replaced by the
\* mapped id when the map has it
RECURSIVE _remap_artifact_refs(_, _, _)
_remap_artifact_refs(value, artifact_id_map, parent_key) ==
    IF value.t = "dict"
    THEN JDict([k \in DOMAIN value.members |->
                  _remap_artifact_refs(value.members[k], artifact_id_map, k)])
    ELSE IF value.t = "list"
    THEN JList([i \in 1..Len(value.items) |->
                  _remap_artifact_refs(value.items[i], artifact_id_map, parent_key)])
    ELSE IF value.t = "str" /\ parent_key # NoKey /\ EndsWithArtifactId(parent_key)
    THEN IF value.v \in DOMAIN artifact_id_map
         THEN JStr(artifact_id_map[value.v], FALSE) ELSE value
    ELSE value

\* The params of a stored artifact are flat in this model: the value of a key that
\* ends with "_artifact_id" is an id or None, every other value is a scalar.
\* AsJson is that object as a JSON tree, FromJson the way back.
AsJson(params) ==
    JDict([k \in DOMAIN params |->
             IF EndsWithArtifactId(k) /\ params[k] # None
             THEN JStr(params[k], FALSE) ELSE JOther(params[k])])

FromJson(value) == [k \in DOMAIN value.members |-> value.members[k].v]

\* an allocator for imports that counts the rows of the step
_next_artifact_version_by_count(arts, run_id, step_id) ==
    Cardinality(OfStep(arts, run_id, step_id)) + 1

\* _next_artifact_version: 1 when the step has no row, else max + 1
_next_artifact_version(arts, run_id, step_id) ==
    LET vs == Versions(arts, run_id, step_id)
    IN IF vs = {} THEN 1 ELSE Max(vs) + 1

\* a first loop that passes over a malformed item instead of raising
RECURSIVE StageItemsSkippingMalformed(_, _, _, _, _, _, _, _)
StageItemsSkippingMalformed(arts, run_id, items, i, next_versions, id_map, id, staged) ==
    IF i > Len(items) THEN [err |-> "", staged |-> staged, id_map |-> id_map]
    ELSE LET item == items[i]
             step_id == item.step_id
             version == IF next_versions[step_id] = 0
                        THEN _next_artifact_version(arts, run_id, step_id)
                        ELSE next_versions[step_id]
             src == item.source_artifact_id
         IN IF \/ ~item.is_object \/ step_id \notin HISTORY_EXPORT_STEP_IDS
               \/ item.artifact_type = "" \/ ~item.files_is_list
            THEN StageItemsSkippingMalformed(arts, run_id, items, i + 1, next_versions,
                                             id_map, id, staged)
            ELSE StageItemsSkippingMalformed(arts, run_id, items, i + 1,
                            [next_versions EXCEPT ![step_id] = version + 1],
                            IF src # None THEN Put(id_map, src, id) ELSE id_map,
                            id + 1,
                            Append(staged, [id |-> id, step_id |-> step_id,
                                            version |-> version, item |-> item]))

\* The first loop of import_run_history from item i on: rows staged so far, the
\* next_versions dict (0 = no entry), source_to_new_artifact_id and the next id.
\* An item that is no object, a step_id that is no positive integer, a blank
\* artifact_type of a step in 1..8 and files of a step in 1..8 that are no list
\* raise ValueError; an item of a step outside 1..8 is passed over.
RECURSIVE StageItems(_, _, _, _, _, _, _, _)
StageItems(arts, run_id, items, i, next_versions, id_map, id, staged) ==
    IF i > Len(items) THEN [err |-> "", staged |-> staged, id_map |-> id_map]
    ELSE LET item == items[i]
             step_id == item.step_id
             version == IF next_versions[step_id] = 0
                        THEN _next_artifact_version(arts, run_id, step_id)
                        ELSE next_versions[step_id]
             src == item.source_artifact_id
         IN IF ~item.is_object
            THEN [err |-> "item", staged |-> staged, id_map |-> id_map]
            ELSE IF step_id <= 0
            THEN [err |-> "step_id", staged |-> staged, id_map |-> id_map]
            ELSE IF step_id \notin HISTORY_EXPORT_STEP_IDS
            THEN StageItems(arts, run_id, items, i + 1, next_versions, id_map, id, staged)
            ELSE IF item.artifact_type = ""
            THEN [err |-> "artifact_type", staged |-> staged, id_map |-> id_map]
            ELSE IF ~item.files_is_list
            THEN [err |-> "files", staged |-> staged, id_map |-> id_map]
            ELSE StageItems(arts, run_id, items, i + 1,
                            [next_versions EXCEPT ![step_id] = version + 1],
                            IF src # None THEN Put(id_map, src, id) ELSE id_map,
                            id + 1,
                            Append(staged, [id |-> id, step_id |-> step_id,
                                            version |-> version, item |-> item]))

\* the fallback name of the file at file_index: "파일_<file_index>.bin"
FallbackName(file_index) ==
    CASE file_index = 1 -> "file_1.bin"
      [] file_index = 2 -> "file_2.bin"
      [] OTHER -> "file_n.bin"

\* PurePath(raw).parts: empty and "." components are dropped
PathParts(raw) == SelectSeq(raw, LAMBDA c : c \notin {"", "."})

\* a _safe_filename that keeps the directories of the name
_safe_filename_whole_path(value, fallback) ==
    IF PathParts(value) = <<>> THEN <<fallback>> ELSE value

\* _safe_filename: Path(raw).name, the last component, or the fallback when the
\* path has no component.  The result is a relative path of one component.
_safe_filename(value, fallback) ==
    LET parts == PathParts(value)
    IN IF parts = <<>> THEN <<fallback>> ELSE <<parts[Len(parts)]>>

\* str(file_item_data.get("mime_type") or "application/octet-stream")
MimeOrDefault(mime_type) ==
    IF mime_type = "" THEN "application/octet-stream" ELSE mime_type

\* artifact_dir / filename for a filename of one component
JoinName(artifact_dir, filename) == [artifact_dir EXCEPT !.name = filename[1]]

\* The inner loop of the second loop of import_run_history from file_index on.
\* restored holds, per file written, its path, mime type and bytes; dirs the
\* directories made.  An entry that is no object or has no data is passed over,
\* a text that is no base64 raises ValueError, a write to ".." raises
\* IsADirectoryError after the directory was made.
RECURSIVE RestoreFiles(_, _, _, _)
RestoreFiles(files_payload, file_index, artifact_dir, restored) ==
    IF file_index > Len(files_payload)
    THEN [err |-> "", restored |-> restored, dirs |-> IF restored = <<>> THEN {} ELSE {artifact_dir}]
    ELSE LET file_item_data == files_payload[file_index]
             filename == _safe_filename(file_item_data.filename, FallbackName(file_index))
         IN IF ~file_item_data.is_object \/ file_item_data.data.blank
            THEN RestoreFiles(files_payload, file_index + 1, artifact_dir, restored)
            ELSE IF ~file_item_data.data.valid
            THEN [err |-> "base64", restored |-> restored,
                  dirs |-> IF restored = <<>> THEN {} ELSE {artifact_dir}]
            ELSE IF filename = <<"..">>
            THEN [err |-> "write", restored |-> restored, dirs |-> {artifact_dir}]
            ELSE RestoreFiles(files_payload, file_index + 1, artifact_dir,
                              Append(restored, [path |-> JoinName(artifact_dir, filename),
                                                mime_type |-> MimeOrDefault(file_item_data.mime_type),
                                                bytes |-> file_item_data.data.bytes]))

\* restored_files: path and mime type of every file written
RestoredRefs(restored) ==
    [j \in 1..Len(restored) |-> FileRef(restored[j].path, restored[j].mime_type)]

\* a row that keeps the references of the payload as they are
ImportedRowUnmapped(run_id, st, id_map, restored) ==
    [id |-> st.id, run_id |-> run_id, step_id |-> st.step_id, version |-> st.version,
     artifact_type |-> st.item.artifact_type, params |-> st.item.params,
     files |-> RestoredRefs(restored)]

\* The row of one staged item after the second loop: params remapped, files placed
\* under history_import
ImportedRow(run_id, st, id_map, restored) ==
    [id |-> st.id, run_id |-> run_id, step_id |-> st.step_id, version |-> st.version,
     artifact_type |-> st.item.artifact_type,
     params |-> FromJson(_remap_artifact_refs(AsJson(st.item.params), id_map, NoKey)),
     files |-> RestoredRefs(restored)]

\* The second loop of import_run_history from staged item i on: the rows, the files
\* written in the order of writing, and the directories made
RECURSIVE RestoreItems(_, _, _, _, _, _, _)
RestoreItems(run_id, staged, i, id_map, rows, written, dirs) ==
    IF i > Len(staged) THEN [err |-> "", rows |-> rows, written |-> written, dirs |-> dirs]
    ELSE LET st == staged[i]
             artifact_dir == history_import_dir(run_id, st.step_id, st.version, st.id, "")
             out == RestoreFiles(st.item.files, 1, artifact_dir, <<>>)
         IN IF out.err # ""
            THEN [err |-> out.err, rows |-> rows, written |-> written \o out.restored,
                  dirs |-> dirs \cup out.dirs]
            ELSE RestoreItems(run_id, staged, i + 1, id_map,
                              rows \cup {ImportedRow(run_id, st, id_map, out.restored)},
                              written \o out.restored, dirs \cup out.dirs)

\* import_run_history: the status, the rows it commits (none unless 200), the files
\* it wrote and the directories it made (they stay when the rows are rolled back)
\* and the number of rows it flushed
import_run_history(arts, run_id, items, id) ==
    LET none == [k \in HISTORY_EXPORT_STEP_IDS |-> 0]
        first == StageItems(arts, run_id, items, 1, none, [k \in {} |-> 0], id, <<>>)
        second == RestoreItems(run_id, first.staged, 1, first.id_map, {}, <<>>, {})
        Failed(status, out) ==
            [status |-> status, rows |-> {}, written |-> out.written, dirs |-> out.dirs,
             flushed |-> Len(first.staged)]
        nothing == [written |-> <<>>, dirs |-> {}]
    IN IF first.err # "" THEN Failed(422, nothing)
       ELSE IF second.err = "write" THEN Failed(500, second)
       ELSE IF second.err # "" THEN Failed(422, second)
       ELSE IF Len(first.staged) = 0 THEN Failed(422, nothing)
       ELSE [status |-> 200, rows |-> second.rows, written |-> second.written,
             dirs |-> second.dirs, flushed |-> Len(first.staged)]

\* Path.write_bytes, file after file: a later write to a path replaces the bytes
RECURSIVE WriteAll(_, _, _)
WriteAll(cont, written, j) ==
    IF j > Len(written) THEN cont
    ELSE WriteAll(Put(cont, written[j].path, written[j].bytes), written, j + 1)

\* absolute_path.read_bytes(): what the last write to the path left there
BytesAt(cont, path) == IF path \in DOMAIN cont THEN cont[path] ELSE path

\* the rows of the run in the order of the export: step_id, version, created_at
RECURSIVE OrderedRows(_)
OrderedRows(rows) ==
    IF rows = {} THEN <<>>
    ELSE LET Before(a, b) ==
                 \/ a.step_id < b.step_id
                 \/ a.step_id = b.step_id /\ a.version < b.version
                 \/ a.step_id = b.step_id /\ a.version = b.version /\ a.id <= b.id
             first == CHOOSE a \in rows : \A b \in rows : Before(a, b)
         IN <<first>> \o OrderedRows(rows \ {first})

\* export_run_history, the files of one artifact: the recorded files that are on
\* disk, under their base names, with their bytes
export_files(dsk, cont, artifact) ==
    LET present == SelectSeq(artifact.files, LAMBDA f : f.path \in dsk)
    IN [j \in 1..Len(present) |->
          FileItem(<<present[j].path.name>>, present[j].mime_type,
                   B64(BytesAt(cont, present[j].path)))]

\* export_run_history: the "artifacts" list of the payload
export_run_history(arts, dsk, cont, run_id) ==
    LET rows == OrderedRows({a \in arts : a.run_id = run_id
                                         /\ a.step_id \in HISTORY_EXPORT_STEP_IDS})
    IN [j \in 1..Len(rows) |->
          Item(rows[j].step_id, rows[j].artifact_type, rows[j].id, rows[j].params,
               export_files(dsk, cont, rows[j]))]

\* The run the hand-made payloads were exported from, in another installation
ForeignRun == "r0"

\* the files an export of an executed artifact of the step carries
ExportedFiles(step_id) ==
    LET files == StepFiles(ForeignRun, step_id, 1, 1)
    IN [j \in 1..Len(files) |->
          FileItem(<<files[j].path.name>>, files[j].mime_type, B64(files[j].path))]

\* the payloads the model imports
ImportPayloads ==
    {<<Item(1, "step1_calibration", 1, [um_per_px |-> 1], ExportedFiles(1))>>,
     <<Item(3, "image_preview", 1, [input_artifact_id |-> None], ExportedFiles(3))>>,
     <<Item(4, "mask_binary", 1, [input_artifact_id |-> 3], ExportedFiles(4)),
       Item(5, "mask_edited", 2, [base_mask_artifact_id |-> 1], ExportedFiles(5))>>,
     <<Item(6, "mask_recovered", 1, [base_mask_artifact_id |-> 2], <<>>)>>,
     <<Item(6, "mask_recovered", 1, [base_mask_artifact_id |-> 2], ExportedFiles(6))>>,
     <<Item(8, "contours", 1, [base_mask_artifact_id |-> 1], ExportedFiles(8))>>,
     <<Item(9, "polygonized_contours", 1, [step8_artifact_id |-> 1], ExportedFiles(9))>>}

\* the payloads imported into the other run
OtherRunPayloads ==
    {<<Item(4, "mask_binary", 1, [input_artifact_id |-> 3], ExportedFiles(4))>>,
     <<Item(6, "mask_recovered", 1, [base_mask_artifact_id |-> 2], ExportedFiles(6))>>}

\* ------------------------------------------------------- rename and delete
Names == {"", "n1"}

SameTriple(arts, artifact) ==
    {t \in arts : t.run_id = artifact.run_id /\ t.step_id = artifact.step_id
                  /\ t.version = artifact.version}

\* a rename that updates the addressed row only
rename_addressed_row_only(arts, artifact, new_name) ==
    (arts \ {artifact})
    \cup {[artifact EXCEPT !.params = Put(artifact.params, "version_name", new_name)]}

\* rename_artifact_version, the rows after the commit: every row of the target's
\* triple gets params["version_name"] = new_name
rename_artifact_version(arts, artifact, new_name) ==
    LET targets == SameTriple(arts, artifact)
    IN (arts \ targets)
       \cup {[t EXCEPT !.params = Put(t.params, "version_name", new_name)] : t \in targets}

\* a delete that selects by run and step and forgets the version
delete_every_version(arts, artifact) ==
    {t \in arts : t.run_id = artifact.run_id /\ t.step_id = artifact.step_id}

\* delete_artifact_version: the rows it deletes
delete_artifact_version(arts, artifact) == SameTriple(arts, artifact)

\* the directories delete_artifact_version removes: the parent of every recorded file
dirs_to_remove(targets) ==
    UNION {{Parent(t.files[i].path) : i \in 1..Len(t.files)} : t \in targets}

\* a remove_tree handed the step directory instead of the artifact's directory
remove_tree_of_step(dsk, dirs) ==
    {p \in dsk : \A d \in dirs : ~(p.run = d.run /\ p.step = d.step)}

\* StorageService.remove_tree over those directories
remove_tree(dsk, dirs) == {p \in dsk : Parent(p) \notin dirs}

\* -------------------------------------------------------------------- actions
\* A request that is rejected leaves the rows as they were; a preview leaves every
\* variable as it was.
Response(op, run_id, step_id, version, status, ids, name) ==
    [op |-> op, run |-> run_id, step |-> step_id, version |-> version,
     status |-> status, ids |-> ids, name |-> name]

NoPending == [s \in Sessions |-> NoArtifact]

\* no pure function is being examined
NoCall == [fn |-> "", done |-> TRUE]

\* no import has written a file
NoContent == [p \in {} |-> NoPath]

AtRest == pending = NoPending

Init ==
    /\ artifacts = {}
    /\ disk = {}
    /\ nextId = 1
    /\ pending = NoPending
    /\ resp = Response("init", "", 0, 0, 0, {}, "")
    /\ call = NoCall
    /\ content = NoContent

\* the explicit ids a request of the step may carry
ReqA(step_id) == IF step_id \in {3, 4, 45, 5, 6, 7, 8, 9, 10} THEN ReqIds ELSE {None}
ReqB(step_id) == IF step_id \in {8, 10} THEN ReqIds ELSE {None}
ReqUm(step_id) == IF step_id = 1 THEN {0, 1} ELSE {1}

Requests(step_id) ==
    {Request(a, b, um) : a \in ReqA(step_id), b \in ReqB(step_id), um \in ReqUm(step_id)}

\* Run r1 is driven through every stage; run r2 is the other run of the store: it
\* takes Step-1 executes and history imports.
ExecuteSteps(run_id) == IF run_id = "r1" THEN VALID_STEP_IDS ELSE {1}
PreviewStepsOf(run_id) == IF run_id = "r1" THEN PreviewSteps ELSE {3}
PreviewRequests(step_id) == {Request(a, None, 1) : a \in ReqA(step_id)}
PayloadsOf(run_id) == IF run_id = "r1" THEN ImportPayloads ELSE OtherRunPayloads

\* POST /runs/{run}/steps/{n}/execute: execute_step, then commit or rollback
Execute(run_id, step_id, req) ==
    \E out \in {execute_step(artifacts, disk, run_id, step_id, req, nextId)} :
       /\ AtRest
       /\ IF RouteStatus(step_id, out.err) = 200
          THEN /\ nextId <= MaxIds
               /\ artifacts' = artifacts \cup {out.row}
               /\ disk' = disk \cup out.written
               /\ nextId' = nextId + 1
               /\ resp' = Response("execute", run_id, step_id, out.version, 200, {out.row.id}, "")
          ELSE /\ disk' = disk \cup out.written
               /\ UNCHANGED <<artifacts, nextId, resp>>
       /\ UNCHANGED <<pending, call, content>>

\* the status of POST /runs/{run}/steps/{n}/preview: the checks and the resolution
\* of the execute, nothing stored
preview_status(arts, dsk, run_id, step_id, req) ==
    LET prereq == _validate_step_prerequisite(arts, run_id, step_id)
        out == StepOutcome(arts, dsk, run_id, step_id, req)
    IN RouteStatus(step_id, IF prereq # "" THEN prereq ELSE out.err)

\* a preview that obtains the version directory of the step as the executor does
preview_writes_step_dir(run_id, step_id, version) ==
    {run_step_dir(run_id, step_id, version, "")}

\* the paths a preview renderer writes under the storage root: none, the PNG goes
\* to a BytesIO buffer or, base64-encoded, into the JSON payload
preview_writes(run_id, step_id, version) == {}

Preview(run_id, step_id, req) ==
    /\ AtRest
    /\ UNCHANGED <<artifacts, nextId, pending, resp, call, content>>
    /\ preview_status(artifacts, disk, run_id, step_id, req) \in {200, 409, 422}
    /\ disk' = disk \cup preview_writes(run_id, step_id,
                                        _next_version(artifacts, run_id, step_id))

\* POST /runs/{run}/history/import.  A failure rolls the rows back; the files
\* written before it stay, under the ids of the rows that were flushed.
Import(run_id, items, bound) ==
    \E out \in {import_run_history(artifacts, run_id, items, nextId)} :
       /\ AtRest
       /\ nextId + out.flushed - 1 <= bound
       /\ disk' = disk \cup out.dirs \cup {out.written[j].path : j \in 1..Len(out.written)}
       /\ content' = WriteAll(content, out.written, 1)
       /\ IF out.status = 200
          THEN /\ artifacts' = artifacts \cup out.rows
               /\ nextId' = nextId + out.flushed
               /\ resp' = Response("import", run_id, 0, 0, 200, {r.id : r \in out.rows}, "")
          ELSE /\ nextId' = IF out.dirs = {} THEN nextId ELSE nextId + out.flushed
               /\ UNCHANGED <<artifacts, resp>>
       /\ UNCHANGED <<pending, call>>

\* PATCH /artifacts/{id}/name
Rename(artifact_id, name) ==
    LET artifact == Get(artifacts, artifact_id)
    IN /\ AtRest
       /\ IF artifact.id = None \/ name = ""
          THEN UNCHANGED <<artifacts, resp>>
          ELSE /\ artifacts' = rename_artifact_version(artifacts, artifact, name)
               /\ resp' = Response("rename", artifact.run_id, artifact.step_id,
                                   artifact.version, 200,
                                   {t.id : t \in SameTriple(artifacts, artifact)}, name)
       /\ UNCHANGED <<disk, nextId, pending, call, content>>

\* DELETE /artifacts/{id}
Delete(artifact_id) ==
    LET artifact == Get(artifacts, artifact_id)
        targets == delete_artifact_version(artifacts, artifact)
    IN /\ AtRest
       /\ IF artifact.id = None
          THEN UNCHANGED <<artifacts, disk, resp>>
          ELSE /\ artifacts' = artifacts \ targets
               /\ disk' = remove_tree(disk, dirs_to_remove(targets))
               /\ resp' = Response("delete", artifact.run_id, artifact.step_id,
                                   artifact.version, 204, {t.id : t \in targets}, "")
       /\ content' = [p \in DOMAIN content \cap disk' |-> content[p]]
       /\ UNCHANGED <<nextId, pending, call>>

Next ==
    \/ \E r \in Runs : \E n \in ExecuteSteps(r) : \E req \in Requests(n) : Execute(r, n, req)
    \/ \E r \in Runs : \E n \in PreviewStepsOf(r) : \E req \in PreviewRequests(n) : Preview(r, n, req)
    \/ \E r \in Runs : \E items \in PayloadsOf(r) : Import(r, items, MaxIds)
    \/ \E id \in Ids, name \in Names : Rename(id, name)
    \/ \E id \in Ids : Delete(id)

Spec == Init /\ [][Next]_vars

\* ------------------------------------------------ concurrent execute requests
\* Two requests in flight, each with its own database session.  A session reads
\* the committed rows only; the row it adds is visible to the other session after
\* its commit.
ConcSteps == {1, 2}

\* execute_step up to session.flush(): prerequisite check, version read, files
\* written, row added to the session
ExecBegin(s, run_id, step_id, req) ==
    \E out \in {execute_step(artifacts, disk, run_id, step_id, req, nextId)} :
       /\ pending[s] = NoArtifact
       /\ IF RouteStatus(step_id, out.err) = 200
          THEN /\ nextId <= MaxIds
               /\ pending' = [pending EXCEPT ![s] = out.row]
               /\ disk' = disk \cup out.written
               /\ nextId' = nextId + 1
          ELSE /\ disk' = disk \cup out.written
               /\ UNCHANGED <<pending, nextId>>
       /\ UNCHANGED <<artifacts, resp, call, content>>

\* session.commit() of the execute route
ExecCommit(s) ==
    /\ pending[s] # NoArtifact
    /\ artifacts' = artifacts \cup {pending[s]}
    /\ pending' = [pending EXCEPT ![s] = NoArtifact]
    /\ resp' = Response("execute", pending[s].run_id, pending[s].step_id,
                        pending[s].version, 200, {pending[s].id}, "")
    /\ UNCHANGED <<disk, nextId, call, content>>

NextConc ==
    \/ \E s \in Sessions, r \in Runs, n \in ConcSteps :
         \E req \in Requests(n) : ExecBegin(s, r, n, req)
    \/ \E s \in Sessions : ExecCommit(s)
    \/ \E id \in Ids, name \in Names : Rename(id, name)
    \/ \E id \in Ids : Delete(id)

SpecConc == Init /\ [][NextConc]_vars

\* ------------------------------------------------ history export and import
\* The store under imports of hand-made payloads, well-formed and malformed, and
\* under exports of one run imported into the other.
MaxImportIds == 4

ImportExecSteps == {1, 3}

GoodS6 == Item(6, "mask_recovered", 1, [base_mask_artifact_id |-> 2], ExportedFiles(6))

\* a file entry whose data is no base64
CorruptFile == FileItem(<<"mask.png">>, "image/png", B64Corrupt)

\* well-formed payloads: a Step-4 artifact and the Step-5 artifact made from it, two
\* artifacts of one step, an artifact whose file entries are partly passed over
WellFormedPayloads ==
    {<<Item(4, "mask_binary", 1, [input_artifact_id |-> 3], ExportedFiles(4)),
       Item(5, "mask_edited", 2, [base_mask_artifact_id |-> 1], ExportedFiles(5))>>,
     <<GoodS6, [GoodS6 EXCEPT !.source_artifact_id = 2]>>,
     <<Item(9, "polygonized_contours", 1, [step8_artifact_id |-> 1], ExportedFiles(9)),
       Item(2, "image_preview", 2, EmptyParams,
            <<NotAFileItem, FileItem(<<"a.png">>, "image/png", B64Blank),
              FileItem(<<"", "etc", ".">>, "", B64(Parent(NoPath))),
              FileItem(<<>>, "image/png", B64(NoPath))>>)>>}

\* payloads with one malformed item after a well-formed one
MalformedPayloads ==
    {<<GoodS6, [GoodS6 EXCEPT !.is_object = FALSE]>>,
     <<GoodS6, [GoodS6 EXCEPT !.step_id = 0]>>,
     <<GoodS6, [GoodS6 EXCEPT !.artifact_type = ""]>>,
     <<GoodS6, [GoodS6 EXCEPT !.files_is_list = FALSE]>>,
     <<GoodS6, [GoodS6 EXCEPT !.files = ExportedFiles(6) \o <<CorruptFile>>]>>,
     <<[GoodS6 EXCEPT !.files = <<CorruptFile>>], GoodS6>>,
     <<GoodS6, [GoodS6 EXCEPT !.step_id = 9, !.artifact_type = ""]>>,
     <<GoodS6, [GoodS6 EXCEPT !.files = <<FileItem(<<"a", "..">>, "image/png",
                                                  B64(NoPath))>>]>>}

HistoryPayloads == WellFormedPayloads \cup MalformedPayloads

\* GET /runs/{source}/history/export, then POST /runs/{target}/history/import with
\* the exported file.  The export writes nothing.
ExportThenImport(source, target) ==
    /\ source # target
    /\ Import(target, export_run_history(artifacts, disk, content, source), MaxImportIds)

NextImport ==
    \/ \E r \in Runs : \E n \in ImportExecSteps : \E req \in Requests(n) : Execute(r, n, req)
    \/ \E r \in Runs : \E items \in HistoryPayloads : Import(r, items, MaxImportIds)
    \/ \E source \in Runs, target \in Runs : ExportThenImport(source, target)
    \/ \E id \in 1..MaxImportIds : Delete(id)

SpecImport == Init /\ [][NextImport]_vars

\* ------------------------------------------------------- the pure functions
\* Each function is examined on its own: the initial state holds the arguments of
\* one call, the step applies the function and records the result.

\* the keys of the trees handed to _remap_artifact_refs: one that ends with
\* "_artifact_id" and two that do not
RemapKeys == {"input_artifact_id", "artifact_id", "note"}

JLeaves == {JStr(1, FALSE), JStr(1, TRUE), JStr(2, FALSE), JOther(1), JOther(None)}

JLists == {JList(<<a>>) : a \in JLeaves}
          \cup {JList(<<a, b>>) : a, b \in {JStr(1, FALSE), JStr(2, FALSE), JOther(1)}}

JDicts == {JDict([k \in {key} |-> a]) : key \in RemapKeys, a \in JLeaves}

JNested == {JList(<<x>>) : x \in JLists \cup JDicts}

\* source_to_new_artifact_id of an import: the source ids of the payload's items
\* and the ids of their copies
RemapMaps == {[s \in {1} |-> 3], [s \in {1, 2} |-> s + 2]}

RemapCalls ==
    {[fn |-> "_remap_artifact_refs", done |-> FALSE,
      value |-> JDict([k \in {key} |-> v]), map |-> m, out |-> JOther(None)] :
        key \in RemapKeys, v \in JLeaves \cup JLists \cup JDicts \cup JNested,
        m \in RemapMaps}

\* The storage root as an absolute path, in components
Root == <<"srv", "storage">>

\* Path.resolve() without symbolic links: the components of path applied to the
\* absolute position at; ".." steps up and stays at "/" when it is there
RECURSIVE Canonical(_, _)
Canonical(path, at) ==
    IF path = <<>> THEN at
    ELSE IF Head(path) \in {"", "."} THEN Canonical(Tail(path), at)
    ELSE IF Head(path) = ".."
    THEN Canonical(Tail(path), IF at = <<>> THEN at ELSE SubSeq(at, 1, Len(at) - 1))
    ELSE Canonical(Tail(path), Append(at, Head(path)))

\* storage_service.resolve(relative_path).resolve(): root / path is path itself
\* when path is absolute (its text starts with "/": first component "")
resolve(relative_path) ==
    IF relative_path # <<>> /\ Head(relative_path) = ""
    THEN Canonical(relative_path, <<>>)
    ELSE Canonical(relative_path, Root)

\* absolute_path.relative_to(root) does not raise
InsideRoot(absolute_path) ==
    /\ Len(absolute_path) >= Len(Root)
    /\ SubSeq(absolute_path, 1, Len(Root)) = Root

\* get_artifact_file from the recorded path on: 400 when the canonical path is not
\* under the root, 404 when nothing is there, else the file
get_artifact_file(relative_path, exists) ==
    IF ~InsideRoot(resolve(relative_path)) THEN 400
    ELSE IF ~exists THEN 404
    ELSE 200

\* artifact_dir of an imported artifact, in components
ArtifactDirParts == <<"r1", "history_import", "step_6", "v1", "a1">>

\* the "filename" texts of import payloads, split at "/"
Filenames ==
    {<<"mask.png">>, <<>>, <<".">>, <<"..">>, <<"a", "..">>, <<"a", "">>,
     <<"..", "mask.png">>, <<"", "etc", "passwd">>,
     <<"..", "..", "..", "..", "..", "..", "..", "passwd">>,
     <<"..", "..", "..", "..", "..", "..", "r2", "mask.png">>}

SafeFilenameCalls ==
    {[fn |-> "_safe_filename", done |-> FALSE, filename |-> f, index |-> i, name |-> <<>>] :
        f \in Filenames, i \in 1..2}

\* the "path" texts a files entry may hold, split at "/"
RecordedPaths ==
    {<<"r1", "step1", "a1", "step1_preview.png">>, <<"r1", "step_2", "v1", "..", "..", "x">>,
     <<"..", "storage", "r1", "x">>, <<"..", "etc", "passwd">>, <<"", "etc", "passwd">>,
     <<"r1", "..", "..", "..", "etc">>, <<"", "srv", "storage", "r1", "x">>}

GetFileCalls ==
    {[fn |-> "get_artifact_file", done |-> FALSE, path |-> p, exists |-> e, status |-> 0] :
        p \in RecordedPaths, e \in BOOLEAN}

Min(S) == CHOOSE x \in S : \A y \in S : x <= y

MSG_CROP_TOO_LARGE == "hadan cutting gabs-i neomu keoseo yuhyohan image-ga namji anseumnida"
MSG_HEIGHT_INVALID == "wonbon image nopi-ga yuhyohaji anseumnida"

\* _execute_step1 up to the crop: the message raised ("" when none), the
\* crop_bottom_px stored in the params and the rows of the preview written
_execute_step1(height, requested_crop_bottom) ==
    LET max_crop_bottom == Max({height - 1, 0})
        crop_bottom_px == Max({0, Min({requested_crop_bottom, max_crop_bottom})})
        cropped_height == height - crop_bottom_px
    IN IF height <= 0
       THEN [err |-> MSG_HEIGHT_INVALID, crop_bottom_px |-> 0, rows |-> 0]
       ELSE IF cropped_height <= 0
       THEN [err |-> MSG_CROP_TOO_LARGE, crop_bottom_px |-> 0, rows |-> 0]
       ELSE [err |-> "", crop_bottom_px |-> crop_bottom_px, rows |-> cropped_height]

\* image heights and the crop_bottom_px of a Step1ExecuteRequest (ge=0)
MaxHeight == 3

Step1Calls ==
    {[fn |-> "_execute_step1", done |-> FALSE, height |-> h, crop_bottom_px |-> c,
      out |-> [err |-> "", crop_bottom_px |-> 0, rows |-> 0]] :
        h \in 1..MaxHeight, c \in 0..(MaxHeight + 1)}

MSG_MASK_SIZE == "pyeonjip mask keugi-ga gijun mask-wa ilchihaji anseumnida"
MSG_MASK_VALUES == "pyeonjip mask-neun 0 ttoneun 255 gabs-man pohamhaeya hamnida"

\* An "L" image: width, height and the pixel values row by row
Gray(width, height, pixels) == [width |-> width, height |-> height, pixels |-> pixels]

\* _normalize_step5_edited_mask from the decoded image on: the size is compared,
\* every pixel is mapped to 255 when it is above 0 and to 0 otherwise, and the
\* values of the result are tested against {0, 255}
_normalize_step5_edited_mask(mask, width, height) ==
    LET binary == [i \in 1..Len(mask.pixels) |-> IF mask.pixels[i] > 0 THEN 255 ELSE 0]
        unique_values == {binary[i] : i \in 1..Len(binary)}
    IN IF <<mask.width, mask.height>> # <<width, height>>
       THEN [err |-> MSG_MASK_SIZE, binary |-> <<>>]
       ELSE IF ~(unique_values \subseteq {0, 255})
       THEN [err |-> MSG_MASK_VALUES, binary |-> <<>>]
       ELSE [err |-> "", binary |-> binary]

\* the pixel values of the uploaded masks
PixelValues == {0, 128, 255}

EditedMasks ==
    {Gray(1, 1, <<a>>) : a \in PixelValues}
    \cup {Gray(2, 1, <<a, b>>) : a, b \in PixelValues}
    \cup {Gray(1, 2, <<a, b>>) : a, b \in PixelValues}

\* the sizes of the base Step-4 mask
BaseMaskSizes == {<<2, 1>>, <<1, 2>>}

Step5MaskCalls ==
    {[fn |-> "_normalize_step5_edited_mask", done |-> FALSE, mask |-> m, base |-> b,
      result |-> [err |-> "", binary |-> <<>>]] : m \in EditedMasks, b \in BaseMaskSizes}

\* ---- parameter normalisation: the numeric parameters ----
\* A requested value is [kind, n]: kind "num" with n in tenths (400 is 40.0),
\* "none" for a key that is absent or null, "text" for a value float() rejects.

Num(n) == [kind |-> "num", n |-> n]
Absent == [kind |-> "none", n |-> 0]
NotANumber == [kind |-> "text", n |-> 0]

\* _to_float: float(value), the default on TypeError, ValueError or a non-finite value
_to_float(value, default) == IF value.kind = "num" THEN value.n ELSE default

\* Python's `x or default` on a float: the default when x is 0.0
OrDefault(x, default) == IF x = 0 THEN default ELSE x

\* _clamp_float
_clamp_float(value, min_value, max_value) == Max({min_value, Min({max_value, value})})

\* one numeric parameter of a normaliser: its key, its default and its clamp range
NumberParam(step_id, key, default, min_value, max_value) ==
    [step |-> step_id, key |-> key, default |-> default, lo |-> min_value, hi |-> max_value]

\* _normalize_step2_params (the white/black ordering fix is not modelled: both
\* ranges are disjoint, white >= 95.0 > 5.0 >= black)
Step2Numbers ==
    {NumberParam(2, "brightness", 0, -1000, 1000), NumberParam(2, "contrast", 0, -1000, 1000),
     NumberParam(2, "gamma", 10, 2, 50), NumberParam(2, "clahe_strength", 0, 0, 100),
     NumberParam(2, "black_clip_pct", 5, 0, 50), NumberParam(2, "white_clip_pct", 995, 950, 1000)}

\* _normalize_step3_params
Step3Numbers ==
    {NumberParam(3, "strength", 400, 0, 1000), NumberParam(3, "edge_protect", 600, 0, 1000)}

\* _normalize_step4_params
Step4Numbers ==
    {NumberParam(4, "seed_sensitivity", 500, 0, 1000),
     NumberParam(4, "candidate_sensitivity", 500, 0, 1000),
     NumberParam(4, "structure_scale_um", 10, 1, 10000)}

\* _normalize_step6_params
Step6Numbers ==
    {NumberParam(6, "max_expand_um", 10, 0, 100),
     NumberParam(6, "recover_sensitivity", 500, 0, 1000),
     NumberParam(6, "edge_protect", 600, 0, 1000)}

\* _normalize_step9_params
Step9Numbers ==
    {NumberParam(9, "smooth_level", 350, 0, 1000), NumberParam(9, "resample_step_px", 20, 5, 50),
     NumberParam(9, "max_vertex_gap_px", 30, 10, 80)}

\* _normalize_step10_params
Step10Numbers == {NumberParam(10, "split_strength", 500, 0, 1000)}

NumberParams ==
    Step2Numbers \cup Step3Numbers \cup Step4Numbers \cup Step6Numbers \cup Step9Numbers
       \cup Step10Numbers

\* the normalised value of the parameter:
\* _clamp_float(_to_float(params.get(key), default) or default, lo, hi)
NormalizeNumber(param, value) ==
    _clamp_float(OrDefault(_to_float(value, param.default), param.default), param.lo, param.hi)

\* the request schema of the typed routes (steps 3 to 10): a float field with the
\* Field(ge=, le=) or Field(gt=) of the key; step 2 is posted as a free params object
SchemaAcceptsNumber(param, value) ==
    IF param.step = 2 \/ value.kind = "none" THEN TRUE
    ELSE IF value.kind # "num" THEN FALSE
    ELSE IF param.key = "structure_scale_um" THEN value.n > 0
    ELSE param.lo <= value.n /\ value.n <= param.hi

\* the requested values tried for a parameter: around both ends of its range, its
\* default, a missing key and a value that is no number
RequestedNumbers(param) ==
    {Num(n) : n \in {param.lo - 1, param.lo, param.lo + 1, param.default, param.hi,
                     param.hi + 1, 0}} \cup {Absent, NotANumber}

NormalizeNumberCalls ==
    UNION {{[fn |-> "normalize_number", done |-> FALSE, param |-> q,
             requested_value |-> v, code |-> 0, normalized |-> 0]
              : v \in RequestedNumbers(q)} : q \in NumberParams}

\* ---- parameter normalisation: the enumerated parameters ----
\* A requested value is [kind, s]: kind "text" with the string s, "none" for a key
\* that is absent or null.  Localized aliases are written in Latin letters.

Text(s) == [kind |-> "text", s |-> s]
NoText == [kind |-> "none", s |-> ""]

MSG_STEP3_METHOD == "3-dangye bangbeob-eun yangbanghyang filter ttoneun NLM-man jiwon"
MSG_QUALITY_MODE == "cheori mode-neun ppareum ttoneun jeonghwak-man jiwon"
MSG_STEP4_MODE == "4-dangye mode-neun gujo giban ttoneun dansun imgyegab-man jiwon"
MSG_HOLE_MODE == "gonggeuk cheori bangsik-i olbareuji anseumnida"

\* str.strip().lower() and str.strip() on the strings that occur
StripLower(s) ==
    CASE s = "NLM" -> "nlm"
      [] s = " keep " -> "keep"
      [] s = "Seed" -> "seed"
      [] s = "LARGE" -> "large"
      [] s = "Restore" -> "restore"
      [] s = "SIMPLE" -> "simple"
      [] s = "Unlisted" -> "unlisted"
      [] OTHER -> s

Strip(s) == IF s = " keep " THEN "keep" ELSE s

\* one enumerated parameter: the map of its normaliser as <<key, value>> pairs, how
\* the raw string is folded before the lookup, the raw string taken for a missing
\* key, what a miss of the lookup does ("raise" with the message, or "default" with
\* the fallback), and the values the validator of its request schema accepts
\* (validated is FALSE when the schema has no validator for the key)
EnumParam(step_id, key, aliases, fold, absent, unknown, fallback, validated, allowed) ==
    [step |-> step_id, key |-> key, aliases |-> aliases, fold |-> fold, absent |-> absent,
     unknown |-> unknown, fallback |-> fallback, validated |-> validated,
     allowed |-> allowed]

\* _normalize_step2_params: clahe_tile_map.get(str(raw or "auto").strip().lower(), "auto")
Step2ClaheTile ==
    EnumParam(2, "clahe_tile",
              {<<"jadong", "auto">>, <<"jakge", "small">>, <<"botong", "medium">>,
               <<"keuge", "large">>, <<"auto", "auto">>, <<"small", "small">>,
               <<"medium", "medium">>, <<"large", "large">>},
              "strip_lower", "auto", "default", "auto", FALSE, {})

\* _normalize_step3_params: method_map.get(method_raw), None raises
Step3Method ==
    EnumParam(3, "method",
              {<<"bilateral", "bilateral">>, <<"yangbanghyang filter(gibon)", "bilateral">>,
               <<"yangbanghyang filter", "bilateral">>, <<"yangbanghyang", "bilateral">>,
               <<"nlm", "nlm">>, <<"bigukso pyeonggyun(nlm)", "nlm">>,
               <<"bigukso pyeonggyun", "nlm">>},
              "strip_lower", "bilateral", MSG_STEP3_METHOD, "", TRUE, {"bilateral", "nlm"})

\* _normalize_step3_params: quality_map.get(quality_raw), None raises
Step3QualityMode ==
    EnumParam(3, "quality_mode",
              {<<"ppareum", "ppareum">>, <<"ppareum(miribogi)", "ppareum">>,
               <<"jeonghwak", "jeonghwak">>, <<"jeonghwak(wonbon)", "jeonghwak">>},
              "strip", "ppareum", MSG_QUALITY_MODE, "", TRUE, {"ppareum", "jeonghwak"})

\* _normalize_step4_params: mode_map.get(mode_raw), None raises
Step4Mode ==
    EnumParam(4, "mode",
              {<<"structure", "structure">>, <<"gujo giban ijinhwa(chucheon)", "structure">>,
               <<"gujo giban ijinhwa", "structure">>, <<"gujo giban", "structure">>,
               <<"simple", "simple">>, <<"dansun imgyegab(debug)", "simple">>,
               <<"dansun imgyegab", "simple">>},
              "strip_lower", "structure", MSG_STEP4_MODE, "", TRUE, {"structure", "simple"})

\* _normalize_step4_params: preview_layer_map.get(preview_layer_raw, "mask"); the key
\* is a field of Step4PreviewRequest only
Step4PreviewLayer ==
    EnumParam(4, "preview_layer",
              {<<"seed", "seed">>, <<"candidate", "candidate">>, <<"mask", "mask">>,
               <<"mask_binary", "mask_binary">>, <<"choejong mask", "mask">>,
               <<"choejong mask(heukbaek)", "mask_binary">>, <<"heukbaek", "mask_binary">>},
              "strip_lower", "mask", "default", "mask", TRUE,
              {"seed", "candidate", "mask", "mask_binary"})

\* _normalize_step5_params: brush_mode_map.get(...) of a non-blank string, else None
Step5BrushMode ==
    EnumParam(5, "brush_mode",
              {<<"sakje", "sakje">>, <<"bogwon", "bogwon">>, <<"delete", "sakje">>,
               <<"erase", "sakje">>, <<"restore", "bogwon">>},
              "strip_lower", "", "default", "", FALSE, {})

\* _normalize_step7_params: hole_mode_map.get(hole_mode_raw), None raises
Step7HoleMode ==
    EnumParam(7, "hole_mode",
              {<<"fill_all", "fill_all">>, <<"modeun gonggeuk chaeugi(chucheon)", "fill_all">>,
               <<"modeun gonggeuk chaeugi", "fill_all">>, <<"fill_small", "fill_small">>,
               <<"jageun gonggeukman chaeugi", "fill_small">>, <<"keep", "keep">>,
               <<"gonggeuk yuji", "keep">>},
              "strip_lower", "fill_all", MSG_HOLE_MODE, "", TRUE,
              {"fill_all", "fill_small", "keep"})

EnumParams ==
    {Step2ClaheTile, Step3Method, Step3QualityMode, Step4Mode, Step4PreviewLayer,
     Step5BrushMode, Step7HoleMode}

\* the string the lookup is made with
Folded(param, value) ==
    LET raw == IF value.kind = "none" \/ (param.step = 2 /\ value.s = "")
               THEN param.absent ELSE value.s
    IN IF param.fold = "strip" THEN Strip(raw) ELSE StripLower(raw)

\* the enumerated parameter as its normaliser settles it: the message raised ("" when
\* none) and the normalised value
NormalizeEnum(param, value) ==
    LET hits == {pr \in param.aliases : pr[1] = Folded(param, value)}
    IN IF hits # {} THEN [err |-> "", value |-> (CHOOSE pr \in hits : TRUE)[2]]
       ELSE IF param.unknown = "default" THEN [err |-> "", value |-> param.fallback]
       ELSE [err |-> param.unknown, value |-> ""]

\* the field_validator of the request schema of the key
SchemaAcceptsEnum(param, value) ==
    value.kind = "none" \/ ~param.validated \/ value.s \in param.allowed

\* the requested strings tried for every enumerated parameter
RequestedTexts(param) ==
    {Text(pr[1]) : pr \in param.aliases}
       \cup {Text(t) : t \in {"NLM", " keep ", "Seed", "LARGE", "Restore", "SIMPLE",
                              "Unlisted", ""}}
       \cup {NoText}

NormalizeEnumCalls ==
    UNION {{[fn |-> "normalize_enum", done |-> FALSE, enum |-> q, requested_text |-> v,
             http |-> 0, canonical |-> ""]
              : v \in RequestedTexts(q)} : q \in EnumParams}

\* ---- masks on a small pixel grid ----
\* A mask is the set of its foreground pixels <<x, y>>.

GridW == 3
GridH == 3

Pixels == (0..(GridW - 1)) \X (0..(GridH - 1))

Abs(n) == IF n < 0 THEN -n ELSE n

\* the pixels of the 3x3 window around a pixel (the loops over ny, nx)
Neighbours8(q) == {n \in Pixels : Abs(n[1] - q[1]) <= 1 /\ Abs(n[2] - q[2]) <= 1}

\* the breadth-first walk over the pixels of region that starts from the pixels of seen
RECURSIVE Flood(_, _)
Flood(region, seen) ==
    LET more == seen \cup {n \in region : \E q \in seen : n \in Neighbours8(q)}
    IN IF more = seen THEN seen ELSE Flood(region, more)

\* the 8-connected components of a set of pixels
Components(region) == {Flood(region, {q}) : q \in region}

TouchesBorder(component) ==
    \E q \in component : q[1] = 0 \/ q[2] = 0 \/ q[1] = GridW - 1 \/ q[2] = GridH - 1

\* Python's round() of the fraction a / b for a >= 0, b > 0: half to even
RoundDiv(a, b) ==
    LET q == a \div b
        r == a % b
    IN IF 2 * r < b THEN q
       ELSE IF 2 * r > b THEN q + 1
       ELSE IF q % 2 = 0 THEN q ELSE q + 1

\* _clamp_int
_clamp_int(value, min_value, max_value) == Max({min_value, Min({max_value, value})})

\* _cityblock_distance_from_mask: the two sweeps give the city-block distance to the
\* nearest mask pixel, width + height + 5 when the mask is empty
_cityblock_distance_from_mask(mask, q) ==
    IF mask = {} THEN GridW + GridH + 5
    ELSE Min({Abs(m[1] - q[1]) + Abs(m[2] - q[2]) : m \in mask})

\* _fill_small_holes: background components that do not touch the border and have
\* at most max_hole_area pixels become foreground
_fill_small_holes(mask, max_hole_area) ==
    IF max_hole_area <= 0 THEN mask
    ELSE mask \cup UNION {c \in Components(Pixels \ mask) :
                             ~TouchesBorder(c) /\ Cardinality(c) <= max_hole_area}

\* _remove_small_objects: components of fewer than min_area_px pixels are dropped
_remove_small_objects(mask, min_area_px) ==
    IF min_area_px <= 1 THEN mask
    ELSE UNION {c \in Components(mask) : Cardinality(c) >= min_area_px}

MSG_STEP6_EMPTY_MASK == "5-dangye mask-e ipja yeongyeog-i eopseo guchul-eul jinhaenghal su eopsseumnida"

\* _run_step6_pipeline on a grayscale source of one uniform value: the particle
\* sigma is max(0, 1.0) = 1.0, so every pixel is at or above mean - k_sigma * sigma,
\* and the Sobel magnitude is 0.0 everywhere, below grad_max >= 4.0; the growth
\* loop therefore accepts every pixel within max_expand_px of the mask.
\* max_expand_um and um_per_px are in tenths.
_run_step6_pipeline(base_mask, max_expand_um, fill_small_holes, um_per_px) ==
    LET max_expand_px == _clamp_int(RoundDiv(max_expand_um, um_per_px), 0, 512)
        grown == IF max_expand_px > 0
                 THEN base_mask \cup {q \in Pixels :
                         _cityblock_distance_from_mask(base_mask, q) <= max_expand_px}
                 ELSE base_mask
        max_hole_area == _clamp_int(RoundDiv(4 * (max_expand_px + 1) * (max_expand_px + 1), 10),
                                    4, 4000)
        filled == IF fill_small_holes THEN _fill_small_holes(grown, max_hole_area)
                  ELSE grown
        min_object_area == IF max_expand_px <= 2 THEN 1
                           ELSE _clamp_int(RoundDiv(8 * max_expand_px, 10), 1, 36)
    IN IF base_mask = {} THEN [err |-> MSG_STEP6_EMPTY_MASK, mask |-> {}]
       ELSE [err |-> "", mask |-> _remove_small_objects(filled, min_object_area)]

\* execute_step, step 6: the requested max_expand_um is normalised, then the
\* pipeline runs with the normalised value
Step6MaxExpand == CHOOSE q \in Step6Numbers : q.key = "max_expand_um"

execute_step6(base_mask, max_expand_um, fill_small_holes, um_per_px) ==
    _run_step6_pipeline(base_mask, NormalizeNumber(Step6MaxExpand, Num(max_expand_um)),
                        fill_small_holes, um_per_px)

Masks == SUBSET Pixels

Step6Calls ==
    {[fn |-> "_run_step6_pipeline", done |-> FALSE, base_mask |-> m, max_expand_um |-> e,
      fill_small_holes |-> f, um_per_px |-> u, recovered |-> [err |-> "", mask |-> {}]]
       : m \in Masks, e \in {0, 10}, f \in BOOLEAN, u \in {10, 40}}

\* ---- step 7: hole handling and closing ----

\* ImageFilter.MaxFilter / MinFilter of a (2r+1) kernel on a binary image; the
\* filter pads the image by repeating its edge pixels, which adds no value the
\* window does not already hold
MaxFilter(mask, radius_px) ==
    {q \in Pixels : \E n \in mask :
        Abs(n[1] - q[1]) <= radius_px /\ Abs(n[2] - q[2]) <= radius_px}

MinFilter(mask, radius_px) ==
    {q \in Pixels : \A n \in Pixels :
        (Abs(n[1] - q[1]) <= radius_px /\ Abs(n[2] - q[2]) <= radius_px) => n \in mask}

\* _apply_binary_closing
_apply_binary_closing(mask, radius_px) ==
    IF radius_px <= 0 THEN mask ELSE MinFilter(MaxFilter(mask, radius_px), radius_px)

\* _normalize_step7_params: closing_radius_um (tenths), Absent for None
NormalizedClosingRadius(closing_enabled, closing_radius_um) ==
    LET clamped == IF closing_radius_um.kind = "num" /\ closing_radius_um.n >= 0
                   THEN Num(_clamp_float(closing_radius_um.n, 0, 100)) ELSE Absent
    IN IF closing_enabled /\ clamped.kind = "none" THEN Num(3) ELSE clamped

\* _run_step7_pipeline: closing_radius_px, 0 when closing is not enabled
ClosingRadiusPx(closing_enabled, closing_radius_um, um_per_px) ==
    IF closing_enabled
    THEN _clamp_int(RoundDiv(_to_float(NormalizedClosingRadius(closing_enabled,
                                                               closing_radius_um), 0),
                             um_per_px), 0, 128)
    ELSE 0

\* the hole filling of every mode, keep included
Step7FillHolesInAnyMode(solid_mask, hole_mode, max_hole_area_um2, um_per_px) ==
    _fill_small_holes(solid_mask, GridW * GridH)

\* _run_step7_pipeline: the outer mask after the hole handling of the mode;
\* max_hole_area_um2 is in tenths of a square micrometre, um_per_px in tenths
Step7FillHoles(solid_mask, hole_mode, max_hole_area_um2, um_per_px) ==
    CASE hole_mode = "fill_all" -> _fill_small_holes(solid_mask, GridW * GridH)
      [] hole_mode = "fill_small" ->
           _fill_small_holes(solid_mask,
                             Max({1, RoundDiv(10 * max_hole_area_um2, um_per_px * um_per_px)}))
      [] OTHER -> solid_mask

\* _run_step7_pipeline: the solid mask, the outer mask and the pore area
_run_step7_pipeline(solid_mask, hole_mode, max_hole_area_um2, closing_enabled, closing_radius_um, um_per_px) ==
    LET filled == Step7FillHoles(solid_mask, hole_mode, max_hole_area_um2, um_per_px)
        closing_radius_px == ClosingRadiusPx(closing_enabled, closing_radius_um, um_per_px)
        outer_mask == IF closing_radius_px > 0
                      THEN _apply_binary_closing(filled, closing_radius_px) \cup solid_mask
                      ELSE filled
    IN [solid |-> solid_mask, outer |-> outer_mask,
        pore_area_px |-> Cardinality(outer_mask \ solid_mask),
        outer_area_px |-> Cardinality(outer_mask)]

Step7Calls ==
    {[fn |-> "_run_step7_pipeline", done |-> FALSE, solid_mask |-> m, hole_mode |-> h,
      closing_enabled |-> c[1], closing_radius_um |-> c[2],
      metrics |-> [solid |-> {}, outer |-> {}, pore_area_px |-> 0, outer_area_px |-> 0]]
       : m \in Masks, h \in {"fill_all", "fill_small", "keep"},
         c \in {<<FALSE, Absent>>, <<FALSE, Num(10)>>, <<TRUE, Absent>>, <<TRUE, Num(10)>>}}

\* ---- step 10: seed peaks ----

\* an array over the pixels, brought to its table of values
Explicit(f) == IF f = [q \in Pixels |-> -1] THEN f ELSE f

\* the distance map of step 10: _cityblock_distance_from_mask of the inverted local
\* mask, as a function of the pixel
DistMap(local_mask) ==
    Explicit([q \in Pixels |-> _cityblock_distance_from_mask(Pixels \ local_mask, q)])

\* _step9_find_seed_peaks: the candidates, mask pixels of at least min_peak_value
\* that no mask pixel of the 3x3 window exceeds and that exceed one of them
PeakCandidates(mask, dist_map, min_peak_value) ==
    {q \in mask :
        /\ dist_map[q] >= min_peak_value
        /\ \A n \in (Neighbours8(q) \cap mask) \ {q} : dist_map[n] <= dist_map[q]
        /\ \E n \in (Neighbours8(q) \cap mask) \ {q} : dist_map[n] < dist_map[q]}

\* candidates.sort(key=(-value, y, x))
PeakBefore(dist_map, a, b) ==
    \/ dist_map[a] > dist_map[b]
    \/ /\ dist_map[a] = dist_map[b]
       /\ (a[2] < b[2] \/ (a[2] = b[2] /\ a[1] < b[1]))

\* a candidate is blocked by a selected peak nearer than the minimum in city-block
\* distance
PeakBlockedCityBlock(selected, q, min_seed_distance_px) ==
    \E i \in 1..Len(selected) :
       Abs(selected[i][1] - q[1]) + Abs(selected[i][2] - q[2]) < min_seed_distance_px

\* a candidate is blocked by a selected peak with dx*dx + dy*dy < min_dist_sq
PeakBlocked(selected, q, min_seed_distance_px) ==
    \E i \in 1..Len(selected) :
       ((selected[i][1] - q[1]) * (selected[i][1] - q[1]))
          + ((selected[i][2] - q[2]) * (selected[i][2] - q[2]))
          < min_seed_distance_px * min_seed_distance_px

\* the greedy pass over the sorted candidates
RECURSIVE SelectPeaks(_, _, _, _)
SelectPeaks(dist_map, remaining, selected, min_seed_distance_px) ==
    IF remaining = {} THEN selected
    ELSE LET first == CHOOSE a \in remaining :
                         \A b \in remaining \ {a} : PeakBefore(dist_map, a, b)
         IN SelectPeaks(dist_map, remaining \ {first},
                        IF PeakBlocked(selected, first, min_seed_distance_px)
                        THEN selected ELSE Append(selected, first),
                        min_seed_distance_px)

\* min_peak_value = max(1, int(round(seed_h))); seed_h is in thousandths
MinPeakValue(seed_h) == Max({1, RoundDiv(seed_h, 1000)})

\* _step9_find_seed_peaks
_step9_find_seed_peaks(mask, dist_map, min_seed_distance_px, seed_h) ==
    SelectPeaks(dist_map,
                PeakCandidates(mask, dist_map, MinPeakValue(seed_h)),
                <<>>, min_seed_distance_px)

SeedPeakCalls ==
    {[fn |-> "_step9_find_seed_peaks", done |-> FALSE, local_mask |-> m,
      min_seed_distance_px |-> d, seed_h |-> h, peaks |-> <<>>]
       : m \in Masks, d \in {1, 2, 3}, h \in {1000, 2750}}

\* ---- step 10: watershed labels ----

\* the index of a pixel in the row-major arrays
PixelIndex(q) == (q[2] * GridW) + q[1]

\* the pixels of a set in index order
RECURSIVE InIndexOrder(_)
InIndexOrder(pixels) ==
    IF pixels = {} THEN <<>>
    ELSE LET first == CHOOSE a \in pixels : \A b \in pixels : PixelIndex(a) <= PixelIndex(b)
         IN <<first>> \o InIndexOrder(pixels \ {first})

\* float("inf"): the cost of a pixel no flood has reached
NoCost == 1000000

\* _elevation without edge scores, times max_dist: max_dist - dist_map[index]
Elevation(mask, dist_map, q) ==
    LET max_dist == Max({1} \cup {dist_map[m] : m \in mask})
    IN max_dist - dist_map[q]

\* heap entries are <<cost, label_id, index, pixel>>; heappop takes the least
HeapMin(heap) ==
    CHOOSE a \in heap : \A b \in heap :
       \/ a[1] < b[1]
       \/ (a[1] = b[1] /\ a[2] < b[2])
       \/ (a[1] = b[1] /\ a[2] = b[2] /\ a[3] <= b[3])

\* the priority flood: labels and best_cost are functions of the pixel
RECURSIVE PriorityFlood(_, _, _, _, _)
PriorityFlood(mask, elevation, labels, best_cost, heap) ==
    IF heap = {} THEN labels
    ELSE LET top == HeapMin(heap)
             cost == top[1]
             label_id == top[2]
             rest == heap \ {top}
             reached == {n \in (Neighbours8(top[4]) \cap mask) \ {top[4]} :
                           /\ labels[n] \in {0, label_id}
                           /\ Max({cost, elevation[n]}) < best_cost[n]}
         IN IF cost > best_cost[top[4]] \/ labels[top[4]] # label_id
            THEN PriorityFlood(mask, elevation, labels, best_cost, rest)
            ELSE PriorityFlood(
                   mask, elevation,
                   Explicit([n \in Pixels |-> IF n \in reached THEN label_id
                                               ELSE labels[n]]),
                   Explicit([n \in Pixels |-> IF n \in reached
                                               THEN Max({cost, elevation[n]})
                                               ELSE best_cost[n]]),
                   rest \cup {<<Max({cost, elevation[n]}), label_id, PixelIndex(n), n>>
                                : n \in reached})

\* the breadth-first fallback: unlabelled mask pixels take the label of the
\* labelled pixel that reaches them first
RECURSIVE SpreadLabels(_, _, _)
SpreadLabels(mask, labels, queue) ==
    IF queue = <<>> THEN labels
    ELSE LET fresh == {n \in (Neighbours8(Head(queue)) \cap mask) : labels[n] = 0}
         IN SpreadLabels(mask,
                         Explicit([n \in Pixels |-> IF n \in fresh
                                                     THEN labels[Head(queue)]
                                                     ELSE labels[n]]),
                         Tail(queue) \o InIndexOrder(fresh))

\* _step9_run_watershed_labels: the labels of the pixels, 0 outside the flood
_step9_run_watershed_labels(mask, dist_map, markers) ==
    LET elevation == Explicit([q \in Pixels |-> Elevation(mask, dist_map, q)])
        used == {i \in 1..Len(markers) : markers[i] \in mask}
        seeded == Explicit([q \in Pixels |->
                               IF \E i \in used : markers[i] = q
                               THEN CHOOSE i \in used : markers[i] = q ELSE 0])
        flooded == PriorityFlood(
                     mask, elevation, seeded,
                     Explicit([q \in Pixels |-> IF seeded[q] > 0 THEN elevation[q]
                                                 ELSE NoCost]),
                     {<<elevation[markers[i]], i, PixelIndex(markers[i]), markers[i]>>
                        : i \in used})
    IN IF markers = <<>> THEN [q \in Pixels |-> 0]
       ELSE SpreadLabels(mask, flooded, InIndexOrder({q \in mask : flooded[q] > 0}))

LabelsUsed(labels) == {labels[q] : q \in Pixels} \ {0}

\* _step10_choose_fallback_peak: the first mask pixel of the greatest distance
_step10_choose_fallback_peak(local_mask, dist_map) ==
    IF local_mask = {} THEN <<>>
    ELSE <<CHOOSE a \in local_mask : \A b \in local_mask :
              \/ dist_map[a] > dist_map[b]
              \/ (dist_map[a] = dist_map[b] /\ PixelIndex(a) <= PixelIndex(b))>>

\* _step10_remove_small_local_labels
_step10_remove_small_local_labels(labels, min_area, local_mask) ==
    LET removable == {l \in LabelsUsed(labels) :
                        Cardinality({q \in Pixels : labels[q] = l}) < min_area}
        filtered == Explicit([q \in Pixels |-> IF labels[q] \in removable THEN 0
                                                 ELSE labels[q]])
    IN IF min_area <= 1 \/ removable = {} THEN labels
       ELSE IF LabelsUsed(filtered) = {}
       THEN [q \in Pixels |-> IF q \in local_mask THEN 1 ELSE 0]
       ELSE filtered

\* _step10_relabel_sequential that leaves the labels as they are
_step10_relabel_not_at_all(labels) == labels

\* _step10_relabel_sequential: the labels renumbered 1, 2, ... in the order in which
\* they first occur in the array
_step10_relabel_sequential(labels) ==
    LET first(l) == Min({PixelIndex(q) : q \in {n \in Pixels : labels[n] = l}})
    IN Explicit([q \in Pixels |->
                   IF labels[q] <= 0 THEN 0
                   ELSE Cardinality({l \in LabelsUsed(labels) :
                                       first(l) <= first(labels[q])})])

\* the effective split parameters: seed_h = clamp(4.5 - ratio * 3.5, 1.0, 4.5) in
\* thousandths, split_strength in tenths
SeedH(split_strength) == _clamp_float(4500 - ((35 * split_strength) \div 10), 1000, 4500)

\* _step10_build_polygon_split_result, the body of the loop for one polygon without
\* grayscale context: the local labels before the filter of small labels
Step10LocalLabels(local_mask, split_strength, min_center_distance_px) ==
    LET dist_map == DistMap(local_mask)
        found == _step9_find_seed_peaks(local_mask, dist_map, min_center_distance_px,
                                        SeedH(split_strength))
        peaks == IF found = <<>> THEN _step10_choose_fallback_peak(local_mask, dist_map)
                 ELSE found
        first_labels == _step9_run_watershed_labels(local_mask, dist_map, peaks)
        retry_peaks == _step9_find_seed_peaks(
                          local_mask, dist_map,
                          Max({1, RoundDiv(8 * min_center_distance_px, 10)}),
                          _clamp_float((7 * SeedH(split_strength)) \div 10, 1000, 4500))
    IN IF split_strength <= 0
       THEN [q \in Pixels |-> IF q \in local_mask THEN 1 ELSE 0]
       ELSE IF Cardinality(LabelsUsed(first_labels)) <= 1 /\ retry_peaks # <<>>
       THEN _step9_run_watershed_labels(local_mask, dist_map, retry_peaks)
       ELSE first_labels

\* the labels of one polygon entered into the global label map with fresh ids
EmitLabels(global_labels, local_labels, next_global_label) ==
    Explicit([q \in Pixels |-> IF local_labels[q] > 0
                                THEN next_global_label + local_labels[q] - 1
                                ELSE global_labels[q]])

\* _step10_build_polygon_split_result on the rasterized polygons local_masks (each
\* with the whole image as its bounding box): the global label map, label_count,
\* label_areas, the number of polygons kept, and qc.split_disabled
RECURSIVE Step10Loop(_, _, _, _, _, _)
Step10Loop(local_masks, split_strength, min_center_distance_px, min_particle_area, global_labels, next_global_label) ==
    IF local_masks = <<>> THEN global_labels
    ELSE LET local_mask == Head(local_masks)
             filtered == _step10_relabel_sequential(
                           _step10_remove_small_local_labels(
                              Step10LocalLabels(local_mask, split_strength,
                                                min_center_distance_px),
                              min_particle_area, local_mask))
         IN IF local_mask = {}
            THEN Step10Loop(Tail(local_masks), split_strength, min_center_distance_px,
                            min_particle_area, global_labels, next_global_label)
            ELSE Step10Loop(Tail(local_masks), split_strength, min_center_distance_px,
                            min_particle_area,
                            EmitLabels(global_labels, filtered, next_global_label),
                            next_global_label + Cardinality(LabelsUsed(filtered)))

_step10_build_polygon_split_result(local_masks, split_strength, min_center_distance_px, min_particle_area) ==
    LET labels == _step10_relabel_sequential(
                     Step10Loop(local_masks, split_strength, min_center_distance_px,
                                min_particle_area, [q \in Pixels |-> 0], 1))
    IN [labels |-> labels,
        label_count |-> Cardinality(LabelsUsed(labels)),
        label_areas |-> [l \in LabelsUsed(labels) |->
                           Cardinality({q \in Pixels : labels[q] = l})],
        polygon_count |-> Cardinality({i \in 1..Len(local_masks) : local_masks[i] # {}}),
        split_disabled |-> split_strength <= 0]

\* execute_step, step 10: the requested split_strength is normalised first
Step10SplitStrength == CHOOSE q \in Step10Numbers : q.key = "split_strength"

execute_step10(local_masks, split_strength, min_center_distance_px, min_particle_area) ==
    _step10_build_polygon_split_result(
       local_masks, NormalizeNumber(Step10SplitStrength, Num(split_strength)),
       min_center_distance_px, min_particle_area)

\* the second polygon of a request: none, one pixel, or a block of four
SecondMasks == {{}, {<<0, 0>>}, {<<1, 1>>, <<2, 1>>, <<1, 2>>, <<2, 2>>}}

Step10Calls ==
    {[fn |-> "_step10_build_polygon_split_result", done |-> FALSE,
      local_masks |-> IF m2 = {} THEN <<m1>> ELSE <<m1, m2>>,
      split_strength |-> t, min_center_distance_px |-> d, min_particle_area |-> a,
      split |-> [labels |-> [q \in Pixels |-> 0], label_count |-> 0,
                 label_areas |-> <<>>, polygon_count |-> 0, split_disabled |-> FALSE]]
       : m1 \in Masks \ {{}}, m2 \in SecondMasks, t \in {0, 1000}, d \in {1, 2},
         a \in {1, 2, 3}}

\* ---- the stores _resolve_step6_base_inputs is applied to ----

StoreRun == "r1"
OtherRun == "r2"

\* a stored row of a stage with the files an execute of the stage records
StoredRow(id, run_id, step_id, version, params) ==
    _add_artifact(run_id, step_id, version, id, StepArtifactType(step_id), params,
                  StepFiles(run_id, step_id, version, id))

\* ids of the rows of a store: the scale, two Step-3 images, the Step-4 mask, the
\* Step-5 mask, a Step-3 image and a Step-4 mask of another run, and an id no row has
StoreId == [Scale |-> 8, OldStep3 |-> 1, NewStep3 |-> 2, Step4 |-> 3, Step5 |-> 5,
            OtherRunStep3 |-> 6, OtherRunStep4 |-> 7, Absent |-> 9]

\* what params.input_artifact_id of the Step-4 row and params.base_mask_artifact_id of
\* the Step-5 row may name
Step4Links == {None, StoreId.OldStep3, StoreId.NewStep3, StoreId.Absent, StoreId.Step5,
               StoreId.OtherRunStep3}
Step5Links == {None, StoreId.Step4, StoreId.Absent, StoreId.OldStep3, StoreId.OtherRunStep4}

Step6Store(step4_link, step5_link) ==
    {StoredRow(StoreId.Scale, StoreRun, 1, 1, [um_per_px |-> 1]),
     StoredRow(StoreId.OldStep3, StoreRun, 3, 1, EmptyParams),
     StoredRow(StoreId.NewStep3, StoreRun, 3, 2, EmptyParams),
     StoredRow(StoreId.Step4, StoreRun, 4, 1, [input_artifact_id |-> step4_link]),
     StoredRow(StoreId.Step5, StoreRun, 5, 1, [base_mask_artifact_id |-> step5_link]),
     StoredRow(StoreId.OtherRunStep3, OtherRun, 3, 1, EmptyParams),
     StoredRow(StoreId.OtherRunStep4, OtherRun, 4, 1, [input_artifact_id |-> StoreId.OldStep3])}

\* the files on disk: every recorded file, less the files of the rows in lost
FilesOnDisk(store, lost) ==
    UNION {PathsOf(a.files) : a \in {x \in store : x.id \notin lost}}

Step6SourceCalls ==
    {[fn |-> "_resolve_step6_base_inputs", done |-> FALSE,
      store |-> Step6Store(l4, l5), files |-> FilesOnDisk(Step6Store(l4, l5), lost),
      requested |-> q, res |-> Res("", None, None, None), stored |-> None]
       : l4 \in Step4Links, l5 \in Step5Links,
         lost \in {{}, {StoreId.OldStep3}, {StoreId.NewStep3}}, q \in {None, StoreId.Step5}}

Calls == RemapCalls \cup SafeFilenameCalls \cup GetFileCalls \cup Step1Calls
         \cup Step5MaskCalls \cup Step6SourceCalls \cup NormalizeNumberCalls
         \cup NormalizeEnumCalls \cup Step6Calls \cup Step7Calls
         \cup SeedPeakCalls \cup Step10Calls

InitCalls ==
    /\ artifacts = {}
    /\ disk = {}
    /\ nextId = 1
    /\ pending = NoPending
    /\ resp = Response("init", "", 0, 0, 0, {}, "")
    /\ call \in Calls
    /\ content = NoContent

\* import_run_history: remapped_params = _remap_artifact_refs(params, map)
ApplyRemap ==
    /\ call.fn = "_remap_artifact_refs" /\ ~call.done
    /\ call' = [call EXCEPT !.done = TRUE,
                            !.out = _remap_artifact_refs(call.value, call.map, NoKey)]
    /\ UNCHANGED <<artifacts, disk, nextId, pending, resp, content>>

\* import_run_history: filename = _safe_filename(file_item_data.get("filename"), ...)
ApplySafeFilename ==
    /\ call.fn = "_safe_filename" /\ ~call.done
    /\ call' = [call EXCEPT !.done = TRUE,
                            !.name = _safe_filename(call.filename, FallbackName(call.index))]
    /\ UNCHANGED <<artifacts, disk, nextId, pending, resp, content>>

\* GET /artifacts/{id}/file
ApplyGetFile ==
    /\ call.fn = "get_artifact_file" /\ ~call.done
    /\ call' = [call EXCEPT !.done = TRUE,
                            !.status = get_artifact_file(call.path, call.exists)]
    /\ UNCHANGED <<artifacts, disk, nextId, pending, resp, content>>

\* execute_step, step 1: _execute_step1
ApplyStep1 ==
    /\ call.fn = "_execute_step1" /\ ~call.done
    /\ call' = [call EXCEPT !.done = TRUE,
                            !.out = _execute_step1(call.height, call.crop_bottom_px)]
    /\ UNCHANGED <<artifacts, disk, nextId, pending, resp, content>>

\* execute_step, step 5: the edited mask is normalised against the base mask's size
ApplyStep5Mask ==
    /\ call.fn = "_normalize_step5_edited_mask" /\ ~call.done
    /\ call' = [call EXCEPT !.done = TRUE,
                            !.result = _normalize_step5_edited_mask(call.mask, call.base[1],
                                                                    call.base[2])]
    /\ UNCHANGED <<artifacts, disk, nextId, pending, resp, content>>

\* execute_step, step 6: the source is resolved and its id is stored in the params
ApplyStep6Source ==
    /\ call.fn = "_resolve_step6_base_inputs" /\ ~call.done
    /\ \E out \in {StepOutcome(call.store, call.files, StoreRun, 6,
                               Request(call.requested, None, None))} :
         call' = [call EXCEPT !.done = TRUE,
                              !.res = _resolve_step6_base_inputs(call.store, call.files,
                                                                 StoreRun, call.requested),
                              !.stored = IF out.err = "" THEN out.params["input_artifact_id"]
                                         ELSE None]
    /\ UNCHANGED <<artifacts, disk, nextId, pending, resp, content>>

\* a step route given one numeric parameter: 422 from the request schema, else the
\* normaliser's value is the one stored and used
ApplyNormalizeNumber ==
    /\ call.fn = "normalize_number" /\ ~call.done
    /\ call' = IF SchemaAcceptsNumber(call.param, call.requested_value)
               THEN [call EXCEPT !.done = TRUE, !.code = 200,
                                 !.normalized = NormalizeNumber(call.param,
                                                                call.requested_value)]
               ELSE [call EXCEPT !.done = TRUE, !.code = 422]
    /\ UNCHANGED <<artifacts, disk, nextId, pending, resp, content>>

\* a step route given one enumerated parameter: 422 from the request schema, else
\* the status of the route for what the normaliser raises, else the normalised value
ApplyNormalizeEnum ==
    /\ call.fn = "normalize_enum" /\ ~call.done
    /\ \E out \in {NormalizeEnum(call.enum, call.requested_text)} :
         call' = IF ~SchemaAcceptsEnum(call.enum, call.requested_text)
                 THEN [call EXCEPT !.done = TRUE, !.http = 422]
                 ELSE [call EXCEPT !.done = TRUE,
                                   !.http = RouteStatus(call.enum.step, out.err),
                                   !.canonical = out.value]
    /\ UNCHANGED <<artifacts, disk, nextId, pending, resp, content>>

\* execute_step, step 6: the mask the pipeline returns
ApplyStep6 ==
    /\ call.fn = "_run_step6_pipeline" /\ ~call.done
    /\ call' = [call EXCEPT !.done = TRUE,
                            !.recovered = execute_step6(call.base_mask, call.max_expand_um,
                                                        call.fill_small_holes,
                                                        call.um_per_px)]
    /\ UNCHANGED <<artifacts, disk, nextId, pending, resp, content>>

\* execute_step, step 7, on a run of 1 um/px with max_hole_area_um2 = 1.0
ApplyStep7 ==
    /\ call.fn = "_run_step7_pipeline" /\ ~call.done
    /\ call' = [call EXCEPT !.done = TRUE,
                            !.metrics = _run_step7_pipeline(call.solid_mask, call.hole_mode,
                                                            10, call.closing_enabled,
                                                            call.closing_radius_um, 10)]
    /\ UNCHANGED <<artifacts, disk, nextId, pending, resp, content>>

\* _step10_build_polygon_split_result: the seed peaks of the local mask of a polygon
ApplySeedPeaks ==
    /\ call.fn = "_step9_find_seed_peaks" /\ ~call.done
    /\ call' = [call EXCEPT !.done = TRUE,
                            !.peaks = _step9_find_seed_peaks(call.local_mask,
                                                             DistMap(call.local_mask),
                                                             call.min_seed_distance_px,
                                                             call.seed_h)]
    /\ UNCHANGED <<artifacts, disk, nextId, pending, resp, content>>

\* execute_step, step 10: the split result of the polygons
ApplyStep10 ==
    /\ call.fn = "_step10_build_polygon_split_result" /\ ~call.done
    /\ call' = [call EXCEPT !.done = TRUE,
                            !.split = execute_step10(call.local_masks, call.split_strength,
                                                     call.min_center_distance_px,
                                                     call.min_particle_area)]
    /\ UNCHANGED <<artifacts, disk, nextId, pending, resp, content>>

NextCalls ==
    \/ ApplyRemap
    \/ ApplySafeFilename
    \/ ApplyGetFile
    \/ ApplyStep1
    \/ ApplyStep5Mask
    \/ ApplyStep6Source
    \/ ApplyNormalizeNumber
    \/ ApplyNormalizeEnum
    \/ ApplyStep6
    \/ ApplyStep7
    \/ ApplySeedPeaks
    \/ ApplyStep10

SpecCalls == InitCalls /\ [][NextCalls]_vars

\* ===================================================================== claims
\* Every request that is answered with a success sets resp' to itself, so
\* resp'.op names the operation of a step that changes resp.
Did(op) == resp' # resp /\ resp'.op = op

\* the largest version stored for (run, step), 0 when there is none
TopVersion(arts, run_id, step_id) ==
    IF Versions(arts, run_id, step_id) = {} THEN 0 ELSE Max(Versions(arts, run_id, step_id))

\* C1: every successful execute of stage S in run R commits exactly one artifact,
\* and its version is 1 + the largest version stored for (R, S) before the
\* request, 1 when (R, S) had no artifact.
C1_ExecuteVersionIsMaxPlusOne ==
    [][Did("execute") =>
         \E a \in artifacts' :
            /\ artifacts' = artifacts \cup {a} /\ a \notin artifacts
            /\ a.run_id = resp'.run /\ a.step_id = resp'.step
            /\ a.version = 1 + TopVersion(artifacts, a.run_id, a.step_id)]_vars

\* C1 witness: an execute committed version 3 of a (run, stage) whose version 1
\* was deleted before
C1_Witness ==
    /\ resp.op = "execute" /\ resp.version = 3
    /\ Versions(artifacts, resp.run, resp.step) = {2, 3}

Contiguous(arts, run_id, step_id) ==
    Versions(arts, run_id, step_id) = 1..Cardinality(Versions(arts, run_id, step_id))

\* C2 as stated: at rest the versions stored for each (run, stage) are {1..K}
C2_VersionsContiguous ==
    AtRest => \A r \in Runs, n \in VALID_STEP_IDS : Contiguous(artifacts, r, n)

\* C2 amended: a request leaves the versions of a (run, stage) contiguous {1..K}
\* when they were, unless it is a delete-version of a version of that (run, stage)
\* below its largest one.
C2_ContiguousUnlessDeletedBelowTop ==
    [][artifacts' # artifacts =>
         \A r \in Runs, n \in VALID_STEP_IDS :
            (/\ Contiguous(artifacts, r, n)
             /\ ~(/\ resp'.op = "delete" /\ resp'.run = r /\ resp'.step = n
                  /\ resp'.version < TopVersion(artifacts, r, n)))
            => Contiguous(artifacts', r, n)]_vars

\* C2 witness: a delete of the largest of three versions left {1, 2}
C2_Witness ==
    /\ resp.op = "delete" /\ resp.version = 3
    /\ Versions(artifacts, resp.run, resp.step) = {1, 2}

\* C3 as stated: interleaved executes never commit two artifacts that carry the
\* same (run, stage, version)
C3_NoSharedVersion ==
    \A a \in artifacts, b \in artifacts :
       (a.run_id = b.run_id /\ a.step_id = b.step_id /\ a.version = b.version) => a.id = b.id

\* the rows of the triple the response names
TripleOf(arts, r) ==
    {a \in arts : a.run_id = r.run /\ a.step_id = r.step /\ a.version = r.version}

\* b is a with at most params.version_name changed
SameButName(a, b) ==
    /\ b.id = a.id /\ b.run_id = a.run_id /\ b.step_id = a.step_id /\ b.version = a.version
    /\ b.artifact_type = a.artifact_type /\ b.files = a.files
    /\ DOMAIN b.params \ {"version_name"} = DOMAIN a.params \ {"version_name"}
    /\ \A k \in DOMAIN a.params \ {"version_name"} : b.params[k] = a.params[k]

FilesKept(a) == PathsOf(a.files) \cap disk \subseteq disk'

\* C4: a committed artifact keeps its run, stage, version, artifact_type, files and
\* every params key other than version_name for as long as it is stored; only a
\* rename changes version_name; an execute or an import removes no artifact and
\* none of its files; a delete removes only artifacts of the version it names and
\* leaves the files of the others in place.
C4_CommittedArtifactImmutable ==
    [][resp' # resp =>
         \A a \in artifacts :
            /\ \A b \in artifacts' :
                  b.id = a.id => /\ SameButName(a, b)
                                 /\ (b # a => resp'.op = "rename")
                                 /\ FilesKept(a)
            /\ (\A b \in artifacts' : b.id # a.id)
                  => (resp'.op = "delete" /\ a \in TripleOf(artifacts, resp'))]_vars

\* C4 witness: version 2 of a (run, stage) was just executed while its version 1,
\* renamed earlier, is stored with its files on disk
C4_Witness ==
    /\ resp.op = "execute" /\ resp.version = 2
    /\ \E a \in artifacts :
          /\ a.run_id = resp.run /\ a.step_id = resp.step /\ a.version = 1
          /\ "version_name" \in DOMAIN a.params
          /\ PathsOf(a.files) # {} /\ PathsOf(a.files) \subseteq disk

\* C5: a rename with a non-blank name sets params.version_name to the name on every
\* artifact of the addressed (run, stage, version), changes nothing else of them,
\* and leaves every artifact of another triple, and the files on disk, as they were.
C5_RenameSetsNameOnTriple ==
    [][Did("rename") =>
         /\ resp'.name # "" /\ TripleOf(artifacts, resp') # {}
         /\ {b.id : b \in artifacts'} = {a.id : a \in artifacts}
         /\ disk' = disk
         /\ \A a \in artifacts : \A b \in artifacts' :
               b.id = a.id =>
                  IF a \in TripleOf(artifacts, resp')
                  THEN /\ SameButName(a, b)
                       /\ "version_name" \in DOMAIN b.params
                       /\ b.params["version_name"] = resp'.name
                  ELSE b = a]_vars

\* C5 witness: a rename reached two artifacts that share a triple, while an
\* artifact of another triple carries no name
C5_Witness ==
    /\ resp.op = "rename" /\ Cardinality(resp.ids) = 2
    /\ \A a \in TripleOf(artifacts, resp) :
          "version_name" \in DOMAIN a.params /\ "um_per_px" \in DOMAIN a.params
    /\ \E a \in artifacts : a \notin TripleOf(artifacts, resp)
                            /\ "version_name" \notin DOMAIN a.params

\* C6: a delete-version removes exactly the artifacts of the addressed (run, stage,
\* version): none of them remains and every other artifact is stored unchanged.
C6_DeleteRemovesExactlyTriple ==
    [][Did("delete") =>
         /\ TripleOf(artifacts, resp') # {}
         /\ artifacts' = artifacts \ TripleOf(artifacts, resp')]_vars

\* C6 witness: a delete removed two artifacts that shared a triple and left the
\* artifact of the same stage and version of the other run
C6_Witness ==
    /\ resp.op = "delete" /\ Cardinality(resp.ids) = 2
    /\ \E a \in artifacts :
          a.step_id = resp.step /\ a.version = resp.version /\ a.run_id # resp.run

\* the status of an execute of the step in the run, asked in the current state
StatusNow(run_id, step_id, req) ==
    RouteStatus(step_id, execute_step(artifacts, disk, run_id, step_id, req, nextId).err)

RowNow(run_id, step_id, req) ==
    execute_step(artifacts, disk, run_id, step_id, req, nextId).row

NoRequestIds == Request(None, None, 1)

\* the edges of the prerequisite graph, <<stage, required predecessor>>
PrerequisiteEdges ==
    {<<2, 1>>, <<3, 2>>, <<4, 3>>, <<5, 4>>, <<45, 5>>, <<6, 5>>, <<7, 6>>, <<9, 8>>, <<10, 9>>}

\* C7: for each edge of the prerequisite graph, an execute of the stage in a run
\* where the predecessor stage has no artifact is answered 409 and has no row to
\* add; an execute that added an artifact found the predecessor stage completed.
C7_PrerequisiteUnmetIs409 ==
    /\ [](\A r \in Runs : \A e \in PrerequisiteEdges :
            OfStep(artifacts, r, e[2]) = {} =>
               \A req \in Requests(e[1]) :
                  StatusNow(r, e[1], req) = 409 /\ RowNow(r, e[1], req) = NoArtifact)
    /\ [][Did("execute") =>
            \A e \in PrerequisiteEdges :
               resp'.step = e[1] => OfStep(artifacts, resp'.run, e[2]) # {}]_vars

\* C7 witness: a run holds stage 5 and no stage 6; an execute of stage 7 is answered
\* 409 there while an execute of stage 4.5 is accepted
C7_Witness ==
    \E r \in Runs :
       /\ OfStep(artifacts, r, 5) # {} /\ OfStep(artifacts, r, 6) = {}
       /\ StatusNow(r, 7, NoRequestIds) = 409
       /\ StatusNow(r, 45, NoRequestIds) = 200

\* C8 as stated: in a run that holds artifacts of no stage other than 1 and 8, an
\* execute of stage 1 or of stage 8 is never answered with the prerequisite error
C8_Stage1And8AlwaysRunnable ==
    \A r \in Runs :
       (\A a \in artifacts : a.run_id = r => a.step_id \in {1, 8}) =>
          \A n \in {1, 8} : \A req \in Requests(n) : StatusNow(r, n, req) # 409

\* C8 amended: an execute of stage 1 is never answered with the prerequisite error;
\* an execute of stage 8 is answered with it exactly when the request names no mask
\* and the run holds no artifact of stage 5 and none of stage 6.
C8_Stage8NeedsMask ==
    \A r \in Runs :
       /\ \A req \in Requests(1) : StatusNow(r, 1, req) # 409
       /\ \A req \in Requests(8) :
             StatusNow(r, 8, req) = 409
                <=> (req.a = None /\ OfStep(artifacts, r, 5) = {} /\ OfStep(artifacts, r, 6) = {})

\* C8 witness: after an execute of stage 1 in a run that holds nothing else, stage 8
\* is answered 409 in that run and accepted in the run that holds a stage-6 mask
C8_Witness ==
    /\ resp.op = "execute" /\ resp.step = 1
    /\ \A a \in artifacts : a.run_id = resp.run => a.step_id = 1
    /\ StatusNow(resp.run, 8, NoRequestIds) = 409
    /\ \E r \in Runs : OfStep(artifacts, r, 6) # {} /\ StatusNow(r, 8, NoRequestIds) = 200

\* the stages an explicit id of the request must come from: a is the first id of a
\* request of the step (input_artifact_id, base_mask_artifact_id, step8_artifact_id,
\* step9_artifact_id), b the second (step 8: step7_artifact_id, step 10:
\* step3_artifact_id)
ExpectedStagesA(step_id) ==
    CASE step_id = 3 -> {2}
      [] step_id = 4 -> {3}
      [] step_id = 5 -> {4}
      [] step_id = 6 -> {5}
      [] step_id = 7 -> {6}
      [] step_id = 8 -> {5, 6}
      [] step_id = 9 -> {8}
      [] step_id = 10 -> {9}
      [] OTHER -> {}

ExpectedStagesB(step_id) ==
    CASE step_id = 8 -> {7}
      [] step_id = 10 -> {3}
      [] OTHER -> {}

\* the id names a stored artifact of the run and of one of the stages
BelongsTo(id, run_id, stages) ==
    \E a \in artifacts : a.id = id /\ a.run_id = run_id /\ a.step_id \in stages

KeyA(step_id) ==
    CASE step_id \in {3, 4} -> "input_artifact_id"
      [] step_id \in {5, 6, 7, 8} -> "base_mask_artifact_id"
      [] step_id = 9 -> "step8_artifact_id"
      [] OTHER -> "step9_artifact_id"

KeyB(step_id) == IF step_id = 8 THEN "step7_artifact_id" ELSE "step3_artifact_id"

\* the id of the newest artifact of the stage in the run: largest version, then
\* latest created; None when there is none
NewestOf(run_id, step_id) ==
    LET rows == {a \in artifacts : a.run_id = run_id /\ a.step_id = step_id}
        top == {a \in rows : \A b \in rows : b.version <= a.version}
    IN IF rows = {} THEN None ELSE Max({a.id : a \in top})

\* the mask a stage falls back on when the request names none
DefaultOfA(run_id, step_id) ==
    IF step_id = 8 /\ NewestOf(run_id, 6) = None THEN NewestOf(run_id, 5)
    ELSE NewestOf(run_id, Max(ExpectedStagesA(step_id)))

ExecNow(run_id, step_id, req) ==
    execute_step(artifacts, disk, run_id, step_id, req, nextId)

ResolvedKeys == RefKeys \ {"requested_step7_artifact_id"}

\* C10 as stated: every id stored in params under a key ending in _artifact_id
\* names a stored artifact of the same run
C10_ReferencesPointIntoRun ==
    \A a \in artifacts : \A k \in DOMAIN a.params :
       (EndsWithArtifactId(k) /\ a.params[k] # None)
          => \E b \in artifacts : b.id = a.params[k] /\ b.run_id = a.run_id

\* C10 amended: every id an execute of a stage other than 4.5 stores under a
\* resolved key (any key ending in _artifact_id but requested_step7_artifact_id)
\* names, when the artifact is committed, a stored artifact of the same run.
C10_ResolvedReferencesPointIntoRun ==
    [][(Did("execute") /\ resp'.step # 45) =>
         \A a \in artifacts' \ artifacts : \A k \in DOMAIN a.params \cap ResolvedKeys :
            a.params[k] # None
               => \E b \in artifacts : b.id = a.params[k] /\ b.run_id = a.run_id]_vars

\* C10 witness: an execute of stage 8 stored the id of the mask of its run while
\* the other run holds a mask as well
C10_Witness ==
    /\ resp.op = "execute" /\ resp.step = 8
    /\ \E a \in artifacts :
          /\ a.id \in resp.ids
          /\ BelongsTo(a.params["base_mask_artifact_id"], a.run_id, {5, 6})
    /\ \E b \in artifacts : b.run_id # resp.run /\ b.step_id \in {5, 6}
\* ------------------------------------------------------------------------ C11
\* a step of an execute request that the route answers with an error
ExecuteFailed ==
    \E r \in Runs : \E n \in ExecuteSteps(r) : \E req \in Requests(n) :
        /\ RouteStatus(n, execute_step(artifacts, disk, r, n, req, nextId).err) # 200
        /\ Execute(r, n, req)

\* C11: an execute that fails leaves the store as it was: the artifact rows and the
\* files and directories under the storage root are those of before the request.
C11_FailedExecuteLeavesNothing ==
    [][(resp' = resp /\ ExecuteFailed) => (artifacts' = artifacts /\ disk' = disk)]_vars

\* ------------------------------------------------------------------------ C12
\* a step of a preview request
PreviewStep ==
    \E r \in Runs : \E n \in PreviewStepsOf(r) : \E req \in PreviewRequests(n) :
        Preview(r, n, req)

\* C12: a preview of stage 3, 4, 6, 7, 9 or 10, answered with a success or with an
\* error, writes nothing: the rows (hence the version _next_version gives the next
\* execute of any stage, which is a function of the rows), the files and the
\* directories are the same before and after it.
C12_PreviewWritesNothing ==
    [][PreviewStep => (artifacts' = artifacts /\ disk' = disk /\ nextId' = nextId)]_vars

\* a state in which one preview is answered with a success and another with the
\* prerequisite error
C12_Witness ==
    /\ preview_status(artifacts, disk, "r1", 3, Request(None, None, 1)) = 200
    /\ preview_status(artifacts, disk, "r1", 4, Request(None, None, 1)) = 409

\* ------------------------------------------------------------------------ C13
\* The scalars of a JSON tree, each with its path, the key of the nearest dict
\* above it (NoKey when there is none) and whether that dict is its immediate
\* parent.
RECURSIVE LeafSet(_, _, _, _)
LeafSet(value, path, key, direct) ==
    IF value.t = "dict"
    THEN UNION {LeafSet(value.members[k], Append(path, [key |-> k, idx |-> 0]), k, TRUE) :
                  k \in DOMAIN value.members}
    ELSE IF value.t = "list"
    THEN UNION {LeafSet(value.items[i], Append(path, [key |-> NoKey, idx |-> i]), key, FALSE) :
                  i \in 1..Len(value.items)}
    ELSE {[path |-> path, key |-> key, direct |-> direct, leaf |-> value]}

Leaves(tree) == LeafSet(tree, <<>>, NoKey, FALSE)

LeafAt(tree, path) == (CHOOSE l \in Leaves(tree) : l.path = path).leaf

RemapDone == call.fn = "_remap_artifact_refs" /\ call.done

\* C13 as stated: a value of the params tree is rewritten if and only if it is a
\* string whose immediate parent key ends with "_artifact_id" and it equals the
\* source id of an imported item; it is then the id of that item's copy, and every
\* other value, strings inside a list under such a key included, is left as it was.
C13_RemapIffImmediateKey ==
    RemapDone =>
        /\ {l.path : l \in Leaves(call.out)} = {l.path : l \in Leaves(call.value)}
        /\ \A l \in Leaves(call.value) :
              LeafAt(call.out, l.path) =
                IF /\ l.leaf.t = "str" /\ l.direct /\ EndsWithArtifactId(l.key)
                   /\ ~l.leaf.pad /\ l.leaf.v \in DOMAIN call.map
                THEN JStr(call.map[l.leaf.v], FALSE)
                ELSE l.leaf

\* C13, amended: a value is rewritten if and only if it is a string, the key of
\* the nearest dict above it (its parent, or the parent of the list or nest of
\* lists it lies in) ends with "_artifact_id", and it is, blanks around it
\* stripped, the source id of an imported item; it is then the id of that item's
\* copy.  Every other value is left as it was and the shape of the tree is kept.
C13_RemapIffNearestKey ==
    RemapDone =>
        /\ {l.path : l \in Leaves(call.out)} = {l.path : l \in Leaves(call.value)}
        /\ \A l \in Leaves(call.value) :
              LeafAt(call.out, l.path) =
                IF /\ l.leaf.t = "str" /\ EndsWithArtifactId(l.key)
                   /\ l.leaf.v \in DOMAIN call.map
                THEN JStr(call.map[l.leaf.v], FALSE)
                ELSE l.leaf

\* a string in a list under a key ending with "_artifact_id" was rewritten
C13_Witness ==
    /\ RemapDone
    /\ \E l \in Leaves(call.value) :
          /\ ~l.direct /\ l.leaf.t = "str" /\ EndsWithArtifactId(l.key)
          /\ LeafAt(call.out, l.path) # l.leaf


\* a file entry the import decodes, and whose text is no base64
CorruptEntry(f) == f.is_object /\ ~f.data.blank /\ ~f.data.valid

HasCorruptFile(item) == \E j \in 1..Len(item.files) : CorruptEntry(item.files[j])

\* malformed as C14 lists it: not an object, invalid step_id, empty artifact_type,
\* files not a list, corrupt base64 in a file
Malformed(item) ==
    \/ ~item.is_object \/ item.step_id <= 0 \/ item.artifact_type = ""
    \/ ~item.files_is_list \/ HasCorruptFile(item)

\* malformed in a way the import looks at: artifact_type, files and file data
\* count for the items of steps 1..8 only
MalformedOfImportedStep(item) ==
    \/ ~item.is_object \/ item.step_id <= 0
    \/ /\ item.step_id \in HISTORY_EXPORT_STEP_IDS
       /\ (item.artifact_type = "" \/ ~item.files_is_list \/ HasCorruptFile(item))

\* C14 as stated: an import of a payload with a malformed item fails and leaves
\* the artifacts as they were (a step either answers no success and leaves the
\* artifacts alone, or is no import of such a payload)
C14_MalformedItemFailsImport ==
    [][\/ resp' = resp /\ artifacts' = artifacts
       \/ \A r \in Runs, items \in MalformedPayloads :
             ~((\E i \in 1..Len(items) : Malformed(items[i]))
               /\ Import(r, items, MaxImportIds))]_vars

\* C14 amended: an import of a payload in which some item is not an object or has
\* an invalid step_id, or some item of a step in 1..8 has an empty artifact_type,
\* files that are no list or corrupt base64 in a file, fails and leaves the
\* artifacts of the store exactly as they were.
C14_MalformedImportedItemFailsImport ==
    [][\/ resp' = resp /\ artifacts' = artifacts
       \/ \A r \in Runs, items \in MalformedPayloads :
             ~((\E i \in 1..Len(items) : MalformedOfImportedStep(items[i]))
               /\ Import(r, items, MaxImportIds))]_vars

\* C14 witness: an import whose second item held a corrupt file was rolled back
\* after the files of its first item were written: run r1 holds one artifact while
\* the directories of the two items of a failed import are on disk
C14_Witness ==
    /\ Cardinality(artifacts) = 1
    /\ \E p \in disk, q \in disk :
          /\ p.layout = "history_import" /\ q.layout = "history_import"
          /\ p.aid # q.aid /\ p.version # q.version
          /\ \A a \in artifacts : a.id \notin {p.aid, q.aid}


OfRun(arts, run_id) == {a \in arts : a.run_id = run_id}

\* the artifacts of the run an export carries
ExportedRows(arts, run_id) ==
    {a \in arts : a.run_id = run_id /\ a.step_id \in HISTORY_EXPORT_STEP_IDS}

\* y, stored after the step, is the copy of x under the map f of source ids to
\* ids of copies: same stage and type, params equal but for the references to
\* exported artifacts, which name the copies, and files with the same bytes
IsCopy(x, y, f) ==
    /\ y.step_id = x.step_id /\ y.artifact_type = x.artifact_type
    /\ DOMAIN y.params = DOMAIN x.params
    /\ \A k \in DOMAIN x.params :
          y.params[k] = IF EndsWithArtifactId(k) /\ x.params[k] \in DOMAIN f
                        THEN f[x.params[k]] ELSE x.params[k]
    /\ Len(y.files) = Len(x.files)
    /\ \A j \in 1..Len(x.files) :
          /\ y.files[j].mime_type = x.files[j].mime_type
          /\ y.files[j].path \in disk'
          /\ BytesAt(content', y.files[j].path) = BytesAt(content, x.files[j].path)

\* the step imported a copy of every exported artifact of run a into run b
RoundTrip(a, b) ==
    LET src == ExportedRows(artifacts, a)
        new == artifacts' \ artifacts
    IN /\ Did("import") /\ resp'.run = b /\ resp'.ids = {y.id : y \in new}
       /\ Cardinality(resp'.ids) = Cardinality(src)
       /\ \A n \in HISTORY_EXPORT_STEP_IDS :
             Cardinality(OfStep(artifacts', b, n)) = Cardinality(OfStep(artifacts, a, n))
       /\ \E f \in [{x.id : x \in src} -> resp'.ids] :
             /\ \A x1 \in src, x2 \in src : f[x1.id] = f[x2.id] => x1 = x2
             /\ \A x \in src : IsCopy(x, Get(artifacts', f[x.id]), f)

\* C15: an export of run A imported into an empty run B gives B, for each stage in
\* 1..8, as many artifacts as A has, imported_count is the number of exported
\* artifacts, the params are those of the originals except that every
\* _artifact_id value naming an exported artifact names its copy in B, and the
\* files hold the same bytes.
C15_ExportImportRoundTrip ==
    [][\A a \in Runs, b \in Runs :
          (OfRun(artifacts, b) = {} /\ ExportThenImport(a, b)) => RoundTrip(a, b)]_vars

\* C15 witness: run r1 holds a Step-3 artifact executed on its Step-2 artifact; the
\* import just answered gave r2 a Step-3 artifact that names the Step-2 artifact
\* of r2 and whose files hold the bytes the execute in r1 wrote
C15_Witness ==
    /\ resp.op = "import" /\ resp.run = "r2"
    /\ \E x \in OfStep(artifacts, "r1", 3), y \in OfStep(artifacts, "r2", 3) :
          /\ Get(artifacts, x.params.input_artifact_id).run_id = "r1"
          /\ Get(artifacts, y.params.input_artifact_id).run_id = "r2"
          /\ {y.id, y.params.input_artifact_id} = resp.ids
          /\ Len(y.files) = Len(x.files)
          /\ \A j \in 1..Len(x.files) :
                /\ x.files[j].path.layout = "step_v"
                /\ BytesAt(content, y.files[j].path) = x.files[j].path


\* the rows of step n among rows
RowsOfStep(rows, n) == {y \in rows : y.step_id = n}

\* C16: a successful import gives every imported artifact an id no stored artifact
\* has and, per stage, the versions next_version, next_version + 1, ...: each is
\* greater than every version the (run, stage) had, no two imported items of a
\* stage share a version, and the items of a stage get increasing versions in
\* payload order (the ids of the rows are handed out in payload order).
C16_ImportContinuesVersions ==
    [][Did("import") =>
         LET new == artifacts' \ artifacts
         IN /\ resp'.ids = {y.id : y \in new}
            /\ \A y \in new :
                  /\ y.run_id = resp'.run
                  /\ \A a \in artifacts : a.id # y.id
                  /\ y.version > TopVersion(artifacts, y.run_id, y.step_id)
            /\ \A y \in new, z \in new :
                  /\ y.id = z.id => y = z
                  /\ (y.step_id = z.step_id /\ y.id < z.id) => y.version < z.version
            /\ \A n \in HISTORY_EXPORT_STEP_IDS :
                  {y.version : y \in RowsOfStep(new, n)}
                    = (TopVersion(artifacts, resp'.run, n) + 1)
                      ..(TopVersion(artifacts, resp'.run, n)
                           + Cardinality(RowsOfStep(new, n)))]_vars

\* C16 witness: two items of stage 6 were just imported as versions 3 and 4 into a
\* run that held version 2 only, its version 1 having been deleted
C16_Witness ==
    /\ resp.op = "import" /\ Cardinality(resp.ids) = 2
    /\ Versions(artifacts, resp.run, 6) = {2, 3, 4}
    /\ \A id \in resp.ids : Get(artifacts, id).step_id = 6 /\ Get(artifacts, id).version >= 3


\* C17: the path an import records for a file, artifact_dir / _safe_filename(...),
\* resolves to a location under the storage root whatever filename the payload
\* supplies, and get_file answers 400 for a recorded path whose canonical path is
\* not under the root.
C17_PathsStayUnderRoot ==
    /\ (call.fn = "_safe_filename" /\ call.done)
          => InsideRoot(resolve(ArtifactDirParts \o call.name))
    /\ (call.fn = "get_artifact_file" /\ call.done /\ ~InsideRoot(resolve(call.path)))
          => call.status = 400

\* C17 witness: the file name of a payload that climbs out of the storage root was
\* cut down to its last component
C17_Witness ==
    /\ call.fn = "_safe_filename" /\ call.done
    /\ ~InsideRoot(resolve(ArtifactDirParts \o call.filename))
    /\ call.name = <<"passwd">>


\* the stages that read the scale
ScaleSteps == {4, 6, 7}

\* C18 as stated: where the latest Stage-1 artifact of a run is missing or holds no
\* positive um_per_px, an execute and a preview of stage 4, 6 or 7 that names no
\* input is answered 409, and the execute has no row to add
C18_UnreadableScaleIs409 ==
    \A r \in {"r1"} : \A n \in ScaleSteps :
       _resolve_um_per_px(artifacts, r) # "" =>
          /\ StatusNow(r, n, NoRequestIds) = 409
          /\ preview_status(artifacts, disk, r, n, NoRequestIds) = 409
          /\ RowNow(r, n, NoRequestIds) = NoArtifact


\* C19 as stated: a Stage-1 execute on an image of height H succeeds with a preview
\* of H - crop_bottom_px rows when crop_bottom_px < H, and fails, creating no
\* artifact, when crop_bottom_px >= H
C19_CropOfWholeHeightFails ==
    (call.fn = "_execute_step1" /\ call.done) =>
       IF call.crop_bottom_px < call.height
       THEN call.out.err = "" /\ call.out.rows = call.height - call.crop_bottom_px
       ELSE call.out.err # ""

\* C20 as stated: an edited mask is accepted only if its size is the base mask's
\* and every pixel is 0 or 255; an accepted mask is stored unchanged
C20_OnlyBinaryMaskAccepted ==
    (call.fn = "_normalize_step5_edited_mask" /\ call.done) =>
       IF /\ <<call.mask.width, call.mask.height>> = call.base
          /\ \A i \in 1..Len(call.mask.pixels) : call.mask.pixels[i] \in {0, 255}
       THEN call.result.err = "" /\ call.result.binary = call.mask.pixels
       ELSE call.result.err # ""


\* C28 as stated: a version that was committed is never handed out again, even
\* after its artifact was deleted (here: an execute that follows a delete of a
\* version of the same run and stage is not given that version)
C28_VersionNeverReused ==
    [][(/\ resp.op = "delete" /\ Did("execute")
        /\ resp'.run = resp.run /\ resp'.step = resp.step)
       => resp'.version # resp.version]_vars

\* C28 amended: over any sequence of executes, imports and delete-version
\* operations, an execute or an import never produces an artifact with the (run,
\* stage, version) of an artifact that is stored, nor with a version below a
\* stored one of that (run, stage); the number of a deleted version is handed out
\* again once no artifact of that (run, stage) with that or a higher version is
\* stored.
C28_VersionAboveStoredOnes ==
    [][(Did("execute") \/ Did("import")) =>
         \A y \in artifacts' \ artifacts : \A a \in artifacts :
            (a.run_id = y.run_id /\ a.step_id = y.step_id) => a.version < y.version]_vars

\* C28 witness: an execute was just given version 2 of a (run, stage) whose stored
\* versions 1 and 2 carry the first and the third id handed out, the second id
\* being stored nowhere
C28_Witness ==
    /\ resp.op = "execute" /\ resp.version = 2 /\ resp.ids = {3}
    /\ {a.id : a \in OfStep(artifacts, resp.run, resp.step)} = {1, 3}
    /\ Get(artifacts, 1).version = 1
    /\ Get(artifacts, 2) = NoArtifact

\* the prerequisite of every populated stage of every run is populated
PrerequisitesPopulated(arts) ==
    \A r \in Runs : \A e \in PrerequisiteEdges :
       OfStep(arts, r, e[1]) # {} => OfStep(arts, r, e[2]) # {}

\* C29 as stated: in every reachable state a run that holds an artifact of a stage
\* with a prerequisite holds an artifact of the prerequisite stage
C29_PrerequisiteClosed == PrerequisitesPopulated(artifacts)

\* C29 amended: an execute keeps the store prerequisite-closed: if before it every
\* populated stage of every run had its prerequisite stage populated, the same
\* holds after it.  A delete-version and an import do not: a delete of the last
\* artifact of a stage leaves the downstream stages populated, and an import
\* stores items of stages 1..8 whatever the run holds.
C29_ExecuteKeepsPrerequisiteClosed ==
    [][(Did("execute") /\ PrerequisitesPopulated(artifacts))
       => PrerequisitesPopulated(artifacts')]_vars

\* C29 witness: a run holds stages 1, 2 and 3, the last one just executed
C29_Witness ==
    /\ resp.op = "execute" /\ resp.step = 3
    /\ \A n \in {1, 2, 3} : OfStep(artifacts, resp.run, n) # {}
    /\ PrerequisitesPopulated(artifacts)


\* ---- C25 ----

\* the Step-3 artifact at the end of the chain of the Step-5 artifact of a store when
\* every link is a row of the run of the expected stage, else NoArtifact
ChainedStep3(store) ==
    LET s5 == CHOOSE a \in store : a.id = StoreId.Step5
        s4s == {a \in store : /\ a.id = s5.params["base_mask_artifact_id"]
                              /\ a.run_id = StoreRun /\ a.step_id = 4}
        s3s == {a \in store : /\ a.run_id = StoreRun /\ a.step_id = 3
                              /\ \E s4 \in s4s : a.id = s4.params["input_artifact_id"]}
    IN IF s3s = {} THEN NoArtifact ELSE CHOOSE a \in s3s : TRUE

Step6SourceDone ==
    call.fn = "_resolve_step6_base_inputs" /\ call.done /\ call.res.err = ""

\* C25 as stated: Step 6 uses the Step-3 artifact at the end of the chain whenever
\* every link is a row of this run of the expected stage, and the latest Step-3
\* artifact of the run otherwise; the id it stores is the one it used.
C25_ChainUsedWhenLinksExist ==
    Step6SourceDone =>
       /\ call.res.b = IF ChainedStep3(call.store).id # None
                       THEN ChainedStep3(call.store).id ELSE StoreId.NewStep3
       /\ call.stored = call.res.b

\* C25: Step 6 uses the Step-3 artifact at the end of the chain when every link is a
\* row of this run of the expected stage and that artifact's image file is on disk,
\* and the latest Step-3 artifact of the run otherwise; the id it stores in
\* input_artifact_id is the one it used.
C25_ChainUsedWhenLinksAndImageExist ==
    Step6SourceDone =>
       /\ call.res.b = IF /\ ChainedStep3(call.store).id # None
                          /\ PathsOf(ChainedStep3(call.store).files) \subseteq call.files
                       THEN ChainedStep3(call.store).id ELSE StoreId.NewStep3
       /\ call.stored = call.res.b

C25_Witness ==
    /\ Step6SourceDone
    /\ ChainedStep3(call.store).id = StoreId.OldStep3
    /\ PathsOf(ChainedStep3(call.store).files) \subseteq call.files
    /\ call.res.b = StoreId.OldStep3 /\ call.stored = StoreId.OldStep3


\* ---- C30 ----

NumberNormalized == call.fn = "normalize_number" /\ call.done /\ call.code = 200

InRange(param, value) ==
    value.kind = "num" /\ param.lo <= value.n /\ value.n <= param.hi

\* C30: normalisation is the identity on every requested numeric value inside the
\* range of its parameter, the boundary value 0 included.
C30_InRangeValueKept ==
    (NumberNormalized /\ InRange(call.param, call.requested_value))
       => call.normalized = call.requested_value.n


\* ---- C24 ----

\* the requested string is a key or a value of the parameter's map, case and
\* surrounding blanks aside
Listed(param, value) ==
    \E pr \in param.aliases :
       StripLower(value.s) \in {pr[1], pr[2]} \/ Strip(value.s) \in {pr[1], pr[2]}

\* C24: a requested value of an enumerated parameter that is neither a listed value
\* nor an alias is answered with a validation error, never replaced by a default;
\* an out-of-range number is clamped into its range without an error.
C24_UnlistedRejectedOutOfRangeClamped ==
    /\ (/\ call.fn = "normalize_enum" /\ call.done
        /\ call.requested_text.kind = "text"
        /\ ~Listed(call.enum, call.requested_text))
          => call.http = 422
    /\ (/\ call.fn = "normalize_number" /\ call.done
        /\ call.requested_value.kind = "num"
        /\ ~InRange(call.param, call.requested_value))
          => /\ call.code = 200
             /\ call.normalized = IF call.requested_value.n < call.param.lo
                                  THEN call.param.lo ELSE call.param.hi


\* ---- C21 ----

\* C21: Step 6 requested with max_expand_um = 0 returns exactly the mask it was given.
C21_NoExpansionReturnsInputMask ==
    (/\ call.fn = "_run_step6_pipeline" /\ call.done
     /\ call.max_expand_um = 0 /\ call.recovered.err = "")
       => call.recovered.mask = call.base_mask


\* ---- C22 ----

Step7KeepDone == call.fn = "_run_step7_pipeline" /\ call.done /\ call.hole_mode = "keep"

\* C22 as stated: with hole_mode = keep the outer mask equals the solid mask pixel
\* for pixel and the porosity is 0, whatever closing_enabled and closing_radius_um are.
C22_KeepReturnsSolid ==
    Step7KeepDone =>
       /\ call.metrics.outer = call.metrics.solid
       /\ call.metrics.pore_area_px = 0

\* C22: with hole_mode = keep the outer mask equals the solid mask pixel for pixel
\* and the porosity is 0 whenever closing is disabled or its radius rounds to 0 px.
C22_KeepWithoutClosingReturnsSolid ==
    (Step7KeepDone /\ ClosingRadiusPx(call.closing_enabled, call.closing_radius_um, 10) = 0)
       => /\ call.metrics.outer = call.solid_mask
          /\ call.metrics.solid = call.solid_mask
          /\ call.metrics.pore_area_px = 0

C22_Witness ==
    /\ Step7KeepDone
    /\ call.closing_enabled /\ call.closing_radius_um = Absent
    /\ _fill_small_holes(call.solid_mask, GridW * GridH) # call.solid_mask
    /\ call.metrics.outer = call.solid_mask /\ call.metrics.pore_area_px = 0


\* ---- C27 ----

EuclidSq(a, b) == ((a[1] - b[1]) * (a[1] - b[1])) + ((a[2] - b[2]) * (a[2] - b[2]))

\* q is a local maximum of the height among the mask pixels around it and is
\* strictly higher than one of them
IsPeak(mask, height, q) ==
    /\ q \in mask
    /\ \A n \in Neighbours8(q) : (n \in mask /\ n # q) => height[n] <= height[q]
    /\ \E n \in Neighbours8(q) : n \in mask /\ n # q /\ height[n] < height[q]

SeedPeaksOk(mask, height, min_distance, min_height, peaks) ==
    /\ \A i, j \in 1..Len(peaks) :
          i < j => /\ EuclidSq(peaks[i], peaks[j]) >= min_distance * min_distance
                   /\ PeakBefore(height, peaks[i], peaks[j])
    /\ \A i \in 1..Len(peaks) : IsPeak(mask, height, peaks[i])
    /\ \A q \in mask :
          (/\ IsPeak(mask, height, q) /\ height[q] >= min_height
           /\ \A i \in 1..Len(peaks) : peaks[i] # q)
             => \E i \in 1..Len(peaks) :
                   /\ PeakBefore(height, peaks[i], q)
                   /\ EuclidSq(peaks[i], q) < min_distance * min_distance

\* C27: the selected seed peaks are pairwise at least min_center_distance_px apart
\* (Euclidean) and are the greedy choice in order of descending height, ties by
\* (y, x); every one is a mask pixel that no mask pixel among its 8 neighbours
\* exceeds and that is strictly higher than one of them.
C27_SeedPeaksGreedyAndApart ==
    (call.fn = "_step9_find_seed_peaks" /\ call.done)
       => SeedPeaksOk(call.local_mask, DistMap(call.local_mask), call.min_seed_distance_px,
                      MinPeakValue(call.seed_h), call.peaks)

C27_Witness ==
    /\ call.fn = "_step9_find_seed_peaks" /\ call.done
    /\ call.min_seed_distance_px = 2 /\ call.seed_h = 1000
    /\ Len(call.peaks) >= 2
    /\ Cardinality(PeakCandidates(call.local_mask, DistMap(call.local_mask), 1))
          > Len(call.peaks)


\* ---- C23 ----

Step10Done == call.fn = "_step10_build_polygon_split_result" /\ call.done

\* C23: Step 10 requested with split_strength = 0 splits nothing: label_count is
\* the number of input polygons and qc.split_disabled is true.
C23_ZeroStrengthSplitsNothing ==
    (Step10Done /\ call.split_strength = 0)
       => /\ call.split.label_count = call.split.polygon_count
          /\ call.split.split_disabled


\* ---- C26 ----

\* the pixels inside the rasterized polygons of the call
Covered == UNION {call.local_masks[i] : i \in 1..Len(call.local_masks)}

RECURSIVE SumOver(_, _)
SumOver(f, keys) ==
    IF keys = {} THEN 0
    ELSE LET k == CHOOSE x \in keys : TRUE IN f[k] + SumOver(f, keys \ {k})

\* the label ids in use are 1..label_count, label_areas has one entry per id and its
\* areas sum to the number of foreground pixels
LabelIdsConsecutive(split) ==
    /\ LabelsUsed(split.labels) = 1..split.label_count
    /\ DOMAIN split.label_areas = 1..split.label_count
    /\ SumOver(split.label_areas, DOMAIN split.label_areas)
          = Cardinality({q \in Pixels : split.labels[q] > 0})

\* C26 as stated: every pixel inside a rasterized polygon carries a label id > 0,
\* every other pixel carries 0, and the ids in use are exactly 1..label_count with
\* label_areas summing to the number of foreground pixels.
C26_EveryPolygonPixelLabelled ==
    Step10Done =>
       /\ \A q \in Pixels : (q \in Covered) <=> (call.split.labels[q] > 0)
       /\ LabelIdsConsecutive(call.split)

\* C26: every pixel outside the rasterized polygons carries 0, every pixel inside one
\* carries a single label id, which is > 0 when no label is removed as smaller than
\* min_particle_area (min_particle_area = 1) and the raster of each polygon is
\* 8-connected; the ids in use are exactly 1..label_count and label_areas sums to the
\* number of foreground pixels.
C26_LabelledPixelsInsidePolygons ==
    Step10Done =>
       /\ \A q \in Pixels : call.split.labels[q] > 0 => q \in Covered
       /\ (/\ call.min_particle_area = 1
           /\ \A i \in 1..Len(call.local_masks) :
                 Cardinality(Components(call.local_masks[i])) = 1)
             => \A q \in Covered : call.split.labels[q] > 0
       /\ LabelIdsConsecutive(call.split)

C26_Witness ==
    /\ Step10Done
    /\ Len(call.local_masks) = 2
    /\ call.min_particle_area = 2
    /\ call.split.label_count = 3
    /\ \E q \in Covered : call.split.labels[q] = 0

====
